---- MODULE Spec2Model ----
(***************************************************************************)
(* A model of RLToyEnv (src/mdp_playground/envs/rl_toy_env.py): the        *)
(* construction of the terminal set, the transition table P and the        *)
(* rewardable sequences of a discrete environment, and the reset / step    *)
(* driver with its augmented-state buffer, sparse and dense rewards,       *)
(* noise counters and only_query calls.                                    *)
(*                                                                         *)
(* Conventions.  Python lists are sequences (1-based here, 0-based in the  *)
(* source; PySlice does the shift), arrays indexed by a state or action    *)
(* are functions over 0..n-1.  Every draw from a numpy RNG is a choice     *)
(* over the outcomes of positive probability.  Densities are exact         *)
(* fractions [num, den] with den a power of two, so that the source's      *)
(* float product density * N is exact.  Rewards are kept as exact          *)
(* multiples of 1/sequence_length: a reward r of the source is the         *)
(* integer r * sequence_length here.                                       *)
(***************************************************************************)
EXTENDS Integers, Sequences, FiniteSets, TLC

VARIABLES
    pc,                            \* position in __init__: "new" .. "ready"
    config,                        \* self.config, the options read by the model
    num_terminal_states,           \* self.num_terminal_states
    relevant_init_state_dist,      \* config["relevant_init_state_dist"], as weights
    transition_function,           \* config["transition_function"], T[s][a]
    specific_sequences,            \* self.specific_sequences[len-1] = list of sequences
    curr_state,                    \* self.curr_state
    augmented_state,               \* self.augmented_state
    possible_remaining_sequences,  \* self.possible_remaining_sequences
    reward,                        \* self.reward (x sequence_length)
    done,                          \* self.done
    total_transitions_episode,
    total_noisy_transitions_episode,
    total_abs_noise_in_reward_episode,
    total_reward_episode,          \* (x sequence_length)
    trajectory,                    \* history: relevant states appended since reset
    codec,                         \* the arguments and results of the codec calls
    rng,                           \* self.np_random and the state space's generator
    returns,                       \* history: what __init__, reset and step returned
    twin,                          \* a second environment, while this one runs
    drawn,                         \* the generators' outputs, by seed and position
    state_derivatives,             \* self.state_derivatives (continuous spaces)
    reached_terminal,              \* self.reached_terminal
    total_abs_noise_in_transition_episode,
    query,                         \* the last direct call of P or R and its result
    total_episodes                 \* self.total_episodes, where it is counted

vars == <<pc, config, num_terminal_states, relevant_init_state_dist,
          transition_function, specific_sequences, curr_state, augmented_state,
          possible_remaining_sequences, reward, done, total_transitions_episode,
          total_noisy_transitions_episode, total_abs_noise_in_reward_episode,
          total_reward_episode, trajectory, codec, rng, returns, twin, drawn,
          state_derivatives, reached_terminal,
          total_abs_noise_in_transition_episode, query, total_episodes>>

\* What only a continuous environment changes.
continuous == <<state_derivatives, reached_terminal,
                total_abs_noise_in_transition_episode>>

\* A discrete environment: no derivatives, and reset's values of the rest.
NoContinuous ==
    /\ state_derivatives = <<>>
    /\ reached_terminal = FALSE
    /\ total_abs_noise_in_transition_episode = 0

\* What a single environment with untracked generators leaves alone.
aux == <<continuous, query, codec, rng, returns, twin, drawn, total_episodes>>

NoAux ==
    /\ NoContinuous
    /\ query = <<>>
    /\ codec = <<>>
    /\ rng = <<>>
    /\ returns = <<>>
    /\ twin = <<>>
    /\ drawn = <<>>
    /\ total_episodes = 0

tables == <<config, num_terminal_states, relevant_init_state_dist,
            transition_function, specific_sequences>>

----------------------------------------------------------------------------
(* Bounds of the model *)

\* Step is disabled once an episode has this many transitions.
MaxSteps == 4

----------------------------------------------------------------------------
(* Python and numpy helpers *)

\* np.nan, the padding of the augmented state after reset: a value that is
\* no state and no coordinate.
NaN == -1000

Min(a, b) == IF a <= b THEN a ELSE b

\* s[a:b] for 0 <= a, 0 <= b (Python clamps both to len(s)).
PySlice(s, a, b) ==
    LET lo == Min(a, Len(s))
        hi == Min(b, Len(s))
    IN  IF lo >= hi THEN <<>> ELSE SubSeq(s, lo + 1, hi)

\* x in list
In(x, list) == \E i \in DOMAIN list : list[i] = x

\* Mutant: an entry that occurs several times is counted once.
Count_once(list, x) == IF \E i \in DOMAIN list : list[i] = x THEN 1 ELSE 0

\* list.count(x)
Count(list, x) == Cardinality({i \in DOMAIN list : list[i] = x})

\* del list[i], i 0-based
DelAt(list, i) == SubSeq(list, 1, i) \o SubSeq(list, i + 2, Len(list))

\* list(range(a, b))
PyRange(a, b) == [i \in 1..(IF b > a THEN b - a ELSE 0) |-> a + i - 1]

RECURSIVE Prod(_)
\* np.prod(list)
Prod(list) == IF list = <<>> THEN 1 ELSE Head(list) * Prod(Tail(list))

RECURSIVE Pow(_, _)
\* b ** e
Pow(b, e) == IF e = 0 THEN 1 ELSE b * Pow(b, e - 1)

\* int(density * x) for x >= 0: the product truncated towards zero.
IntOfProduct(density, x) == (density.num * x) \div density.den

\* np_random.choice(n, size=size, replace=False): the ordered samples of
\* `size` distinct members of 0..n-1.
Choice(n, size) ==
    {f \in [1..size -> 0..(n - 1)] : \A i, j \in 1..size : i # j => f[i] # f[j]}

\* DiscreteExtended(n).sample(size=size, replace=False): the ordered samples
\* of `size` distinct members of 0..n-1.
SampleWithoutReplacement(n, size) ==
    {f \in [1..size -> 0..(n - 1)] : \A i, j \in 1..size : i # j => f[i] # f[j]}

\* The ordered samples of `size` members of 0..n-1, each drawn independently:
\* `size` calls of DiscreteExtended(n).sample().
SampleWithReplacement(n, size) == [1..size -> 0..(n - 1)]

----------------------------------------------------------------------------
(* Configuration *)

States(cfg) == 0..(cfg.state_space_size - 1)
Actions(cfg) == 0..(cfg.action_space_size - 1)

\* self.augmented_state_length
AugmentedStateLength(cfg) == cfg.sequence_length + cfg.delay + 1

\* The asserts of __init__ on a discrete configuration.
ConfigValid(cfg) ==
    /\ cfg.sequence_length > 0
    /\ cfg.completely_connected => cfg.state_space_size = cfg.action_space_size

\* A fraction num/den of [0, 1].
Density(n, d) == [num |-> n, den |-> d]

\* The options of a simple discrete environment that the model reads.
\* has_transition_noise / has_reward_noise: whether the key is in the config;
\* transition_noise: the probability p; reward_noise: the values the
\* configured callable can return.
BaseConfig ==
    [seed |-> 0,
     state_space_size |-> 3, action_space_size |-> 2,
     completely_connected |-> FALSE,
     terminal_state_density |-> Density(1, 4),
     reward_density |-> Density(1, 2),
     repeats_in_sequences |-> FALSE,
     sequence_length |-> 1, delay |-> 0,
     make_denser |-> FALSE,
     reward_scale |-> 1, reward_shift |-> 0, term_state_reward |-> 0,
     has_transition_noise |-> FALSE, transition_noise |-> Density(0, 1),
     has_reward_noise |-> FALSE, reward_noise |-> {0}]

----------------------------------------------------------------------------
(* Construction: init_terminal_states, init_init_state_dist,               *)
(* init_transition_function, init_reward_function                          *)

\* Mutant: the truncated product is kept when it is 0.
NumTerminalStates_truncated(cfg) ==
    IntOfProduct(cfg.terminal_state_density, cfg.state_space_size)

\* init_terminal_states: int(density * size), at least 1.
NumTerminalStates(cfg) ==
    LET n == IntOfProduct(cfg.terminal_state_density, cfg.state_space_size)
    IN  IF n = 0 THEN 1 ELSE n

\* config["is_terminal_state"]: the last nts states.
TerminalStates(cfg, nts) == {cfg.state_space_size - 1 - i : i \in 0..(nts - 1)}

\* self.is_terminal_state(s)
IsTerminalState(cfg, nts, s) == s \in TerminalStates(cfg, nts)

\* init_init_state_dist: weight 1 (of nonterm) on each of the first nonterm
\* states, 0 on the last nts.
RelevantInitStateDist(cfg, nts) ==
    LET nonterm == cfg.state_space_size - nts
    IN  [s \in States(cfg) |-> IF s < nonterm THEN 1 ELSE 0]

\* Mutant: every row is drawn with replacement.
SampledRows_replace(cfg) ==
    {[a \in Actions(cfg) |-> f[a + 1]] :
        f \in SampleWithReplacement(cfg.state_space_size, cfg.action_space_size)}

\* One row of the table as sampled: a without-replacement sample of the
\* state set when completely_connected, independent draws otherwise.
SampledRows(cfg) ==
    LET samples == IF cfg.completely_connected
                   THEN SampleWithoutReplacement(cfg.state_space_size,
                                                 cfg.action_space_size)
                   ELSE SampleWithReplacement(cfg.state_space_size,
                                              cfg.action_space_size)
    IN  {[a \in Actions(cfg) |-> f[a + 1]] : f \in samples}

\* Mutant: the loop starts one row late.
SetTerminalRows_late(cfg, nts, t) ==
    [s \in States(cfg) |->
        IF s > cfg.state_space_size - nts /\ s < cfg.state_space_size
        THEN [a \in Actions(cfg) |-> s]
        ELSE t[s]]

\* "Setting P(s, a) = s for terminal states": the loop over the last nts rows.
SetTerminalRows(cfg, nts, t) ==
    [s \in States(cfg) |->
        IF s >= cfg.state_space_size - nts /\ s < cfg.state_space_size
        THEN [a \in Actions(cfg) |-> s]
        ELSE t[s]]

\* init_transition_function: every table it can leave in
\* config["transition_function"].
TransitionTables(cfg, nts) ==
    {SetTerminalRows(cfg, nts, t) : t \in [States(cfg) -> SampledRows(cfg)]}

\* num_possible_sequences / num_possible_permutations
NumPossibleSequences(cfg, nts) ==
    LET nonterm == cfg.state_space_size - nts
    IN  IF cfg.repeats_in_sequences
        THEN Pow(nonterm, cfg.sequence_length)
        ELSE Prod(PyRange(nonterm + 1 - cfg.sequence_length, nonterm + 1))

\* Mutant: the product is rounded up.
NumSpecificSequences_ceil(cfg, nts) ==
    (cfg.reward_density.num * NumPossibleSequences(cfg, nts)
         + cfg.reward_density.den - 1) \div cfg.reward_density.den

\* num_specific_sequences
NumSpecificSequences(cfg, nts) ==
    IntOfProduct(cfg.reward_density, NumPossibleSequences(cfg, nts))

RECURSIVE DecodeWithRepeats(_, _, _)
\* The while loop of the repeats branch: the base-nonterm digits of num,
\* least significant first, len of them.
DecodeWithRepeats(num, nonterm, len) ==
    IF len = 0 THEN <<>>
    ELSE <<num % nonterm>> \o DecodeWithRepeats(num \div nonterm, nonterm, len - 1)

RECURSIVE DecodePermutation_kept(_, _, _)
\* Mutant: the digit picked stays among the remaining digits.
DecodePermutation_kept(perm, rem_digits, js) ==
    IF js = <<>> THEN <<>>
    ELSE LET j == js[Len(js)]
             rem_ == perm % j
         IN  <<rem_digits[rem_ + 1]>>
             \o DecodePermutation_kept(perm \div j, rem_digits,
                                       SubSeq(js, 1, Len(js) - 1))

RECURSIVE DecodePermutation(_, _, _)
\* The loop "for j in permutations[::-1]": j runs from hi down to lo, each
\* step picks and deletes digit number (perm % j) of the remaining digits.
DecodePermutation(perm, rem_digits, js) ==
    IF js = <<>> THEN <<>>
    ELSE LET j == js[Len(js)]
             rem_ == perm % j
         IN  <<rem_digits[rem_ + 1]>>
             \o DecodePermutation(perm \div j, DelAt(rem_digits, rem_),
                                  SubSeq(js, 1, Len(js) - 1))

\* Mutant: the digits are taken over all states, terminal ones included.
DecodeSequence_all(cfg, nts, num) ==
    IF cfg.repeats_in_sequences
    THEN DecodeWithRepeats(num, cfg.state_space_size, cfg.sequence_length)
    ELSE DecodePermutation(num, PyRange(0, cfg.state_space_size),
                           PyRange(cfg.state_space_size + 1 - cfg.sequence_length,
                                   cfg.state_space_size + 1))

\* The sequence the constructor decodes from one selected number.
DecodeSequence(cfg, nts, num) ==
    LET nonterm == cfg.state_space_size - nts
    IN  IF cfg.repeats_in_sequences
        THEN DecodeWithRepeats(num, nonterm, cfg.sequence_length)
        ELSE DecodePermutation(num, PyRange(0, nonterm),
                               PyRange(nonterm + 1 - cfg.sequence_length, nonterm + 1))

\* init_reward_function: every value it can leave in self.specific_sequences
\* (a list per sequence length, only the one of sequence_length is filled).
SpecificSequences(cfg, nts) ==
    LET N == NumPossibleSequences(cfg, nts)
        num == NumSpecificSequences(cfg, nts)
    IN  {[i \in 1..cfg.sequence_length |->
            IF i = cfg.sequence_length
            THEN [l \in 1..num |-> DecodeSequence(cfg, nts, sel[l])]
            ELSE <<>>] : sel \in Choice(N, num)}

\* The rewardable sequences: self.specific_sequences[self.sequence_length - 1].
RewardableSequences(cfg, seqs) == seqs[cfg.sequence_length]

----------------------------------------------------------------------------
(* reset() *)

RECURSIVE Concat(_)
\* The members of a list of lists, in order.
Concat(lists) == IF lists = <<>> THEN <<>> ELSE Head(lists) \o Concat(Tail(lists))

RECURSIVE FirstPrefixes(_)
\* reset(): the loops over k and l that append specific_sequences[k][l][:1].
FirstPrefixes(all) ==
    IF all = <<>> THEN <<>>
    ELSE <<PySlice(Head(all), 0, 1)>> \o FirstPrefixes(Tail(all))

\* Mutant: the prefixes are appended to every slot of the list.
ResetPossibleRemainingSequences_every(cfg, seqs) ==
    IF cfg.make_denser
    THEN [j \in 1..cfg.sequence_length |-> FirstPrefixes(Concat(seqs))]
    ELSE <<>>

\* reset(): possible_remaining_sequences of a dense environment; the
\* attribute does not exist in a sparse one.
ResetPossibleRemainingSequences(cfg, seqs) ==
    IF cfg.make_denser
    THEN [j \in 1..cfg.sequence_length |->
            IF j = 1 THEN FirstPrefixes(Concat(seqs)) ELSE <<>>]
    ELSE <<>>

\* reset(): the states np_random.choice(n, p=relevant_init_state_dist) can return.
InitialStates(dist) == {s \in DOMAIN dist : dist[s] > 0}

\* reset(): [nan] * (augmented_state_length - 1) + [curr_state_relevant]
ResetAugmentedState(cfg, s) ==
    [i \in 1..AugmentedStateLength(cfg) |->
        IF i < AugmentedStateLength(cfg) THEN NaN ELSE s]

----------------------------------------------------------------------------
(* transition_function(state, action, only_query) *)

\* probs: weight (1 - p) on next_state and p / (n - 1) on every other state,
\* as numerators over the common denominator den * (n - 1).
NoiseProbs(cfg, next_state) ==
    [s \in States(cfg) |->
        IF s = next_state
        THEN (cfg.transition_noise.den - cfg.transition_noise.num)
                 * (cfg.state_space_size - 1)
        ELSE cfg.transition_noise.num]

\* relevant_observation_space.sample(prob=probs): a state of positive weight.
SampleProb(probs) == {s \in DOMAIN probs : probs[s] > 0}

\* The next relevant states P can produce from T[state][action]: the entry
\* itself, or a resampled state when transition_noise is configured.
NextStates(cfg, next_state) ==
    IF cfg.has_transition_noise
    THEN SampleProb(NoiseProbs(cfg, next_state))
    ELSE {next_state}

\* Mutant: the resampled state is written to the entry that was looked up.
TableAfterP_written(table, state, action, new_next_state) ==
    [table EXCEPT ![state][action] = new_next_state]

\* config["transition_function"] after P: the entry at [state, action] is
\* read into the local next_state, which "next_state = new_next_state"
\* rebinds; nothing is stored in the table.
TableAfterP(table, state, action, new_next_state) == table

\* Mutant: every transition under configured noise is counted as noisy.
NoisyTransitions_always(cfg, count, next_state, new_next_state) ==
    IF cfg.has_transition_noise THEN count + 1 ELSE count

\* Mutant: a resampled state that differs is logged but not counted.
NoisyTransitions_logged(cfg, count, next_state, new_next_state) == count

\* total_noisy_transitions_episode after the transition.
NoisyTransitions(cfg, count, next_state, new_next_state) ==
    IF cfg.has_transition_noise /\ next_state # new_next_state
    THEN count + 1
    ELSE count

\* Mutant: the oldest entry is not deleted.
PushAugmentedState_keep(aug, next_state) == aug \o <<next_state>>

\* Mutant: the newest entry is deleted, not the oldest.
PushAugmentedState_newest(aug, next_state) ==
    SubSeq(aug, 1, Len(aug) - 1) \o <<next_state>>

\* del self.augmented_state[0]; self.augmented_state.append(next_state)
PushAugmentedState(aug, next_state) == DelAt(aug, 0) \o <<next_state>>

----------------------------------------------------------------------------
(* reward_function(state, action, only_query), discrete *)

\* Mutant: the window ends at the present, the delay is forgotten.
SparseWindow_nodelay(cfg, state_considered) ==
    PySlice(state_considered, 1 + cfg.delay, AugmentedStateLength(cfg))

\* The sparse branch: state_considered[1 : L - delay] in the rewardable list.
SparseWindow(cfg, state_considered) ==
    PySlice(state_considered, 1, AugmentedStateLength(cfg) - cfg.delay)

SparseReward(cfg, seqs, state_considered) ==
    IF In(SparseWindow(cfg, state_considered), RewardableSequences(cfg, seqs))
    THEN cfg.reward_scale * cfg.sequence_length
    ELSE 0

\* curr_seq_being_checked: state_considered[L - j - delay : L - delay]
DenseWindow(cfg, state_considered, j) ==
    PySlice(state_considered,
            AugmentedStateLength(cfg) - j - cfg.delay,
            AugmentedStateLength(cfg) - cfg.delay)

RECURSIVE DenseRewardUpTo_noj(_, _, _, _)
\* Mutant: the share of a prefix does not grow with its length j.
DenseRewardUpTo_noj(cfg, prs, state_considered, j) ==
    IF j = 0 THEN 0
    ELSE DenseRewardUpTo_noj(cfg, prs, state_considered, j - 1)
         + (IF In(DenseWindow(cfg, state_considered, j), prs[j])
            THEN Count(prs[j], DenseWindow(cfg, state_considered, j))
                     * cfg.reward_scale
            ELSE 0)

RECURSIVE DenseRewardUpTo(_, _, _, _)
\* The loop "for j in range(1, sequence_length + 1)" up to j:
\* count_ * reward_scale * j / sequence_length for every j whose window is in
\* possible_remaining_sequences[j - 1].
DenseRewardUpTo(cfg, prs, state_considered, j) ==
    IF j = 0 THEN 0
    ELSE DenseRewardUpTo(cfg, prs, state_considered, j - 1)
         + (IF In(DenseWindow(cfg, state_considered, j), prs[j])
            THEN Count(prs[j], DenseWindow(cfg, state_considered, j))
                     * cfg.reward_scale * j
            ELSE 0)

DenseReward(cfg, prs, state_considered) ==
    DenseRewardUpTo(cfg, prs, state_considered, cfg.sequence_length)

RECURSIVE MatchingPrefixes(_, _, _)
\* The loops over k and l for one j: append seq[:j + 1] for every sequence
\* whose seq[:j] equals the window.
MatchingPrefixes(all, window, j) ==
    IF all = <<>> THEN <<>>
    ELSE (IF window = PySlice(Head(all), 0, j)
          THEN <<PySlice(Head(all), 0, j + 1)>>
          ELSE <<>>) \o MatchingPrefixes(Tail(all), window, j)

\* possible_remaining_sequences as rebuilt by the dense branch.
RebuildPossibleRemainingSequences(cfg, seqs, state_considered) ==
    [i \in 1..cfg.sequence_length |->
        MatchingPrefixes(Concat(seqs),
                         DenseWindow(cfg, state_considered, i - 1), i - 1)]

\* The reward before noise and shift (x sequence_length).
BaseReward(cfg, seqs, prs, state_considered) ==
    IF cfg.make_denser
    THEN DenseReward(cfg, prs, state_considered)
    ELSE SparseReward(cfg, seqs, state_considered)

\* The values config["reward_noise"](np_random) can return, 0 when absent.
RewardNoise(cfg) == IF cfg.has_reward_noise THEN cfg.reward_noise ELSE {0}

Abs(x) == IF x < 0 THEN -x ELSE x

\* Mutant: the shift is multiplied by reward_scale like the base reward.
ReturnedReward_scaled_shift(cfg, base, noise_in_reward, is_done) ==
    base
    + (noise_in_reward + cfg.reward_shift * cfg.reward_scale) * cfg.sequence_length
    + (IF is_done
       THEN cfg.term_state_reward * cfg.reward_scale * cfg.sequence_length
       ELSE 0)

\* reward += noise_in_reward; reward += self.reward_shift in R, and in step
\* self.reward += self.term_state_reward * self.reward_scale if self.done
\* (x sequence_length).
ReturnedReward(cfg, base, noise_in_reward, is_done) ==
    base
    + (noise_in_reward + cfg.reward_shift) * cfg.sequence_length
    + (IF is_done
       THEN cfg.term_state_reward * cfg.reward_scale * cfg.sequence_length
       ELSE 0)

----------------------------------------------------------------------------
(* The environment after __init__, and its operations *)

\* __init__ for one configuration: the tables of the init_* methods, then
\* self.curr_state = self.reset().
InitEnv(cfgs) ==
    \E cfg \in cfgs :
        LET nts == NumTerminalStates(cfg) IN
        /\ ConfigValid(cfg)
        /\ ~cfg.repeats_in_sequences
        /\ pc = "ready"
        /\ config = cfg
        /\ num_terminal_states = nts
        /\ relevant_init_state_dist = RelevantInitStateDist(cfg, nts)
        /\ transition_function \in TransitionTables(cfg, nts)
        /\ specific_sequences \in SpecificSequences(cfg, nts)
        /\ curr_state \in InitialStates(RelevantInitStateDist(cfg, nts))
        /\ augmented_state = ResetAugmentedState(cfg, curr_state)
        /\ possible_remaining_sequences =
               ResetPossibleRemainingSequences(cfg, specific_sequences)
        /\ reward = 0
        /\ done = FALSE
        /\ total_transitions_episode = 0
        /\ total_noisy_transitions_episode = 0
        /\ total_abs_noise_in_reward_episode = 0
        /\ total_reward_episode = 0
        /\ trajectory = <<curr_state>>

\* reset()
reset ==
    /\ pc = "ready"
    /\ \E s \in InitialStates(relevant_init_state_dist) :
        /\ curr_state' = s
        /\ augmented_state' = ResetAugmentedState(config, s)
        /\ trajectory' = <<s>>
    /\ possible_remaining_sequences' =
           ResetPossibleRemainingSequences(config, specific_sequences)
    /\ total_transitions_episode' = 0
    /\ total_noisy_transitions_episode' = 0
    /\ total_abs_noise_in_reward_episode' = 0
    /\ total_reward_episode' = 0
    /\ UNCHANGED <<pc, tables, reward, done>>

\* step(action): P, then R on the new augmented state, then the done flag and
\* the terminal bonus.
step(action) ==
    /\ pc = "ready"
    /\ total_transitions_episode < MaxSteps
    /\ LET next_state == transition_function[curr_state][action] IN
       \E new_next_state \in NextStates(config, next_state),
          noise_in_reward \in RewardNoise(config) :
        LET aug == PushAugmentedState(augmented_state, new_next_state)
            base == BaseReward(config, specific_sequences,
                               possible_remaining_sequences, aug)
            is_done == IsTerminalState(config, num_terminal_states, aug[Len(aug)])
        IN
        /\ curr_state' = new_next_state
        /\ augmented_state' = aug
        /\ trajectory' = Append(trajectory, new_next_state)
        /\ total_transitions_episode' = total_transitions_episode + 1
        /\ total_noisy_transitions_episode' =
               NoisyTransitions(config, total_noisy_transitions_episode,
                                next_state, new_next_state)
        /\ possible_remaining_sequences' =
               IF config.make_denser
               THEN RebuildPossibleRemainingSequences(config, specific_sequences, aug)
               ELSE possible_remaining_sequences
        /\ total_abs_noise_in_reward_episode' =
               total_abs_noise_in_reward_episode + Abs(noise_in_reward)
        /\ total_reward_episode' = total_reward_episode + base
        /\ done' = is_done
        /\ reward' = ReturnedReward(config, base, noise_in_reward, is_done)
        /\ transition_function' =
               TableAfterP(transition_function, curr_state, action, new_next_state)
    /\ UNCHANGED <<pc, config, num_terminal_states, relevant_init_state_dist,
                   specific_sequences>>

\* step(action, only_query=True) of a simple discrete environment: P leaves
\* the augmented state alone and its result is stored in self.curr_state;
\* R is then handed that integer as the state sequence and its assert
\* isinstance(state_considered, list) raises, so step returns nothing.
step_only_query(action) ==
    /\ pc = "ready"
    /\ total_noisy_transitions_episode < MaxSteps
    /\ LET next_state == transition_function[curr_state][action] IN
       \E new_next_state \in NextStates(config, next_state) :
        /\ curr_state' = new_next_state
        /\ total_noisy_transitions_episode' =
               NoisyTransitions(config, total_noisy_transitions_episode,
                                next_state, new_next_state)
        /\ transition_function' =
               TableAfterP(transition_function, curr_state, action, new_next_state)
    /\ UNCHANGED <<pc, config, num_terminal_states, relevant_init_state_dist,
                   specific_sequences, augmented_state, possible_remaining_sequences,
                   reward, done, total_transitions_episode,
                   total_abs_noise_in_reward_episode, total_reward_episode,
                   trajectory>>

Reset == reset /\ UNCHANGED aux

DoStep == \E action \in Actions(config) : step(action) /\ UNCHANGED aux

DoStepOnlyQuery ==
    \E action \in Actions(config) : step_only_query(action) /\ UNCHANGED aux

Next == Reset \/ DoStep \/ DoStepOnlyQuery

----------------------------------------------------------------------------
(* __init__, one init_* method at a time *)

\* The configurations whose construction is explored: 3 states with 3
\* actions (completely connected) or 2 (not), one or two terminal states,
\* sequences of length 1 and 2 with and without repeats; and the 6-state
\* configuration with density 1/4 and sequences of length 1.
ConstructionConfigs ==
    {[BaseConfig EXCEPT !.completely_connected = cc,
                        !.action_space_size = IF cc THEN 3 ELSE 2,
                        !.terminal_state_density = tsd,
                        !.repeats_in_sequences = rep,
                        !.sequence_length = k,
                        !.reward_density = rd] :
        cc \in BOOLEAN, tsd \in {Density(0, 1), Density(3, 4)},
        rep \in BOOLEAN, k \in 1..2, rd \in {Density(1, 4), Density(3, 4)}}
    \cup
    {[BaseConfig EXCEPT !.state_space_size = 6,
                        !.action_space_size = 1,
                        !.terminal_state_density = Density(0, 1),
                        !.repeats_in_sequences = rep,
                        !.reward_density = Density(1, 4)] : rep \in BOOLEAN}

\* Before the init_* methods have run.
InitNew ==
    /\ pc = "init_terminal_states"
    /\ config \in ConstructionConfigs
    /\ ConfigValid(config)
    /\ num_terminal_states = 0
    /\ relevant_init_state_dist = <<>>
    /\ transition_function = <<>>
    /\ specific_sequences = <<>>
    /\ curr_state = NaN
    /\ augmented_state = <<>>
    /\ possible_remaining_sequences = <<>>
    /\ reward = 0
    /\ done = FALSE
    /\ total_transitions_episode = 0
    /\ total_noisy_transitions_episode = 0
    /\ total_abs_noise_in_reward_episode = 0
    /\ total_reward_episode = 0
    /\ trajectory = <<>>

episode == <<curr_state, augmented_state, possible_remaining_sequences, reward,
             done, total_transitions_episode, total_noisy_transitions_episode,
             total_abs_noise_in_reward_episode, total_reward_episode, trajectory>>

init_terminal_states ==
    /\ pc = "init_terminal_states"
    /\ pc' = "init_init_state_dist"
    /\ num_terminal_states' = NumTerminalStates(config)
    /\ UNCHANGED <<config, relevant_init_state_dist, transition_function,
                   specific_sequences, episode>>

init_init_state_dist ==
    /\ pc = "init_init_state_dist"
    /\ pc' = "init_transition_function"
    /\ relevant_init_state_dist' = RelevantInitStateDist(config, num_terminal_states)
    /\ UNCHANGED <<config, num_terminal_states, transition_function,
                   specific_sequences, episode>>

init_transition_function ==
    /\ pc = "init_transition_function"
    /\ pc' = "init_reward_function"
    /\ transition_function' \in TransitionTables(config, num_terminal_states)
    /\ UNCHANGED <<config, num_terminal_states, relevant_init_state_dist,
                   specific_sequences, episode>>

\* init_reward_function. With repeats_in_sequences the sequences are built
\* and the log statement that follows evaluates str("Out of", n), which
\* raises TypeError: __init__ is left there and no environment is constructed.
\* np_random.choice(n, size, replace=False) raises ValueError for a size
\* above n, before any sequence is built.
init_reward_function ==
    /\ pc = "init_reward_function"
    /\ IF NumSpecificSequences(config, num_terminal_states)
              > NumPossibleSequences(config, num_terminal_states)
       THEN /\ pc' = "ValueError"
            /\ UNCHANGED specific_sequences
       ELSE /\ pc' = IF config.repeats_in_sequences THEN "TypeError" ELSE "reset"
            /\ specific_sequences' \in
                   SpecificSequences(config, num_terminal_states)
    /\ UNCHANGED <<config, num_terminal_states, relevant_init_state_dist,
                   transition_function, episode>>

\* self.curr_state = self.reset(), the last statement of __init__.
init_reset ==
    /\ pc = "reset"
    /\ pc' = "ready"
    /\ \E s \in InitialStates(relevant_init_state_dist) :
        /\ curr_state' = s
        /\ augmented_state' = ResetAugmentedState(config, s)
        /\ trajectory' = <<s>>
    /\ possible_remaining_sequences' =
           ResetPossibleRemainingSequences(config, specific_sequences)
    /\ UNCHANGED <<tables, reward, done, total_transitions_episode,
                   total_noisy_transitions_episode,
                   total_abs_noise_in_reward_episode, total_reward_episode>>

InitTerminalStates == init_terminal_states /\ UNCHANGED aux

InitInitStateDist == init_init_state_dist /\ UNCHANGED aux

InitTransitionFunction == init_transition_function /\ UNCHANGED aux

InitRewardFunction == init_reward_function /\ UNCHANGED aux

InitReset == init_reset /\ UNCHANGED aux

NextInit ==
    \/ InitTerminalStates
    \/ InitInitStateDist
    \/ InitTransitionFunction
    \/ InitRewardFunction
    \/ InitReset

InitConstruction == InitNew /\ NoAux

\* The constructor, from the configuration to the first reset.
SpecInit == InitConstruction /\ [][NextInit]_vars

----------------------------------------------------------------------------
(* The constructed environment under reset and step *)

\* Sparse rewards: 3 states, 2 actions, every delay in 0..2 with sequences
\* of length 1 and 2 (one rewardable sequence); the same with a scale, a
\* shift and a terminal bonus; and a completely connected table.
SparseConfigs ==
    {[BaseConfig EXCEPT !.sequence_length = k, !.delay = d] :
        k \in 1..2, d \in 0..2}
    \cup
    {[BaseConfig EXCEPT !.sequence_length = 2, !.delay = 1,
                        !.reward_scale = 2,
                        !.reward_shift = 1, !.term_state_reward = 1]}
    \cup
    {[BaseConfig EXCEPT !.action_space_size = 3, !.completely_connected = TRUE]}

\* Dense rewards: 4 states (3 non-terminal) and sequences of length 3
\* without repeats, one rewardable triple (density 1/4 of 6) or two (3/8);
\* and sequences of length 2 with delay 1.
DenseConfigs ==
    {[BaseConfig EXCEPT !.state_space_size = 4, !.action_space_size = 1,
                        !.terminal_state_density = Density(0, 1),
                        !.sequence_length = 3, !.make_denser = TRUE,
                        !.reward_scale = 2,
                        !.reward_density = rd] :
        rd \in {Density(1, 4), Density(3, 8)}}
    \cup
    {[BaseConfig EXCEPT !.sequence_length = 2, !.delay = 1,
                        !.make_denser = TRUE]}

\* Noise: transition_noise configured as 0 or 1/2, reward_noise configured
\* as a callable returning 0 or one returning -1 or 1, or neither configured.
NoiseConfigs ==
    {[BaseConfig EXCEPT !.action_space_size = 1,
                        !.has_transition_noise = TRUE,
                        !.transition_noise = p] :
        p \in {Density(0, 1), Density(1, 2)}}
    \cup
    {[BaseConfig EXCEPT !.action_space_size = 1,
                        !.has_reward_noise = TRUE, !.reward_noise = rn] :
        rn \in {{0}, {-1, 1}}}
    \cup
    {[BaseConfig EXCEPT !.action_space_size = 1]}

Init == InitEnv(SparseConfigs) /\ NoAux

\* Sparse environments under reset, step and step(only_query=True).
Spec == Init /\ [][Next]_vars

InitDense == InitEnv(DenseConfigs) /\ NoAux

\* Dense environments under the same operations.
SpecDense == InitDense /\ [][Next]_vars

\* Rewards with every term present: scale 2, shift 1, terminal bonus 1 and
\* reward_noise returning -1 or 1 (or not configured), for sequences of
\* length 1 and 2, sparse, and of length 2, dense.
RewardConfigs ==
    {[BaseConfig EXCEPT !.action_space_size = 1,
                        !.sequence_length = k, !.make_denser = dense,
                        !.reward_scale = 2, !.reward_shift = 1,
                        !.term_state_reward = 1,
                        !.has_reward_noise = noisy,
                        !.reward_noise = IF noisy THEN {-1, 1} ELSE {0}] :
        k \in 1..2, dense \in BOOLEAN, noisy \in BOOLEAN}

InitReward == InitEnv(RewardConfigs) /\ NoAux

\* Environments whose reward has a scale, a shift, a bonus and noise.
SpecReward == InitReward /\ [][Next]_vars

InitNoise == InitEnv(NoiseConfigs) /\ NoAux

\* Environments with transition_noise or reward_noise configured.
SpecNoise == InitNoise /\ [][Next]_vars

----------------------------------------------------------------------------
(* Direct calls of P and R, the lambdas of init_transition_function and    *)
(* init_reward_function                                                    *)

\* At most this many calls of P and R are made by the caller.
MaxQueries == 1

\* The caller takes at most this many steps in an episode.
MaxQuerySteps == 1

\* No call of P or R has been made. Of a call the record keeps the state
\* handed to P, in a list; the list handed to R is not kept.
NoQuery ==
    [call |-> "none", only_query |-> FALSE, state |-> <<>>, action |-> 0,
     result |-> 0, raised |-> FALSE, calls |-> 0]

\* Mutant: the augmented state is pushed whether or not only_query is set.
AugmentedStateAfterP_always(only_query, aug, next_state) ==
    PushAugmentedState(aug, next_state)

\* transition_function: "if only_query: pass" and its else branch.
AugmentedStateAfterP(only_query, aug, next_state) ==
    IF only_query THEN aug ELSE PushAugmentedState(aug, next_state)

\* P(state, action, only_query) of a simple discrete environment.
P(state, action, only_query) ==
    /\ pc = "ready"
    /\ query.calls < MaxQueries
    /\ only_query \/ total_transitions_episode < MaxQuerySteps
    /\ LET next_state == transition_function[state][action] IN
       \E new_next_state \in NextStates(config, next_state) :
        /\ total_noisy_transitions_episode' =
               NoisyTransitions(config, total_noisy_transitions_episode,
                                next_state, new_next_state)
        /\ augmented_state' =
               AugmentedStateAfterP(only_query, augmented_state, new_next_state)
        /\ total_transitions_episode' =
               IF only_query
               THEN total_transitions_episode
               ELSE total_transitions_episode + 1
        /\ trajectory' =
               IF only_query THEN trajectory
               ELSE Append(trajectory, new_next_state)
        /\ query' = [call |-> "P", only_query |-> only_query,
                     state |-> <<state>>, action |-> action,
                     result |-> new_next_state, raised |-> FALSE,
                     calls |-> query.calls + 1]
    /\ UNCHANGED <<pc, tables, curr_state, possible_remaining_sequences,
                   reward, done, total_abs_noise_in_reward_episode,
                   total_reward_episode>>

\* R(state, action, only_query) of a simple discrete environment, handed a
\* list of states: with only_query the list is the state sequence rewarded
\* (of length augmented_state_length, or the assert raises), without it the
\* augmented state is. The counters and, for dense rewards, the remaining
\* sequences are updated in both cases.
R(state, action, only_query) ==
    /\ pc = "ready"
    /\ query.calls < MaxQueries
    /\ IF only_query /\ Len(state) # AugmentedStateLength(config)
       THEN /\ query' = [call |-> "R", only_query |-> only_query,
                         state |-> <<>>, action |-> action,
                         result |-> 0, raised |-> TRUE,
                         calls |-> query.calls + 1]
            /\ UNCHANGED <<possible_remaining_sequences,
                           total_abs_noise_in_reward_episode,
                           total_reward_episode>>
       ELSE \E noise_in_reward \in RewardNoise(config) :
            LET state_considered == IF only_query THEN state ELSE augmented_state
                base == BaseReward(config, specific_sequences,
                                   possible_remaining_sequences, state_considered)
            IN
            /\ possible_remaining_sequences' =
                   IF config.make_denser
                   THEN RebuildPossibleRemainingSequences(
                            config, specific_sequences, state_considered)
                   ELSE possible_remaining_sequences
            /\ total_abs_noise_in_reward_episode' =
                   total_abs_noise_in_reward_episode + Abs(noise_in_reward)
            /\ total_reward_episode' = total_reward_episode + base
            /\ query' = [call |-> "R", only_query |-> only_query,
                         state |-> <<>>, action |-> action,
                         result |-> base + (noise_in_reward + config.reward_shift)
                                               * config.sequence_length,
                         raised |-> FALSE, calls |-> query.calls + 1]
    /\ UNCHANGED <<pc, tables, curr_state, augmented_state, reward, done,
                   total_transitions_episode, total_noisy_transitions_episode,
                   trajectory>>

\* The lists of states a caller hands to R: the augmented state with an
\* imagined state pushed, and the same list short of its oldest entry.
StateLists(cfg, aug) ==
    {PushAugmentedState(aug, s) : s \in States(cfg)}
    \cup {Tail(PushAugmentedState(aug, s)) : s \in States(cfg)}

\* What a direct call leaves alone.
called == <<continuous, codec, rng, returns, twin, drawn, total_episodes>>

CallP ==
    \E state \in States(config), action \in Actions(config),
       only_query \in BOOLEAN :
        P(state, action, only_query) /\ UNCHANGED called

CallR ==
    \E state \in StateLists(config, augmented_state), action \in Actions(config),
       only_query \in BOOLEAN :
        R(state, action, only_query) /\ UNCHANGED called

\* step(action, only_query=True), recorded as a call.
CallStepOnlyQuery ==
    \E action \in Actions(config) :
        /\ query.calls < MaxQueries
        /\ step_only_query(action)
        /\ query' = [call |-> "step", only_query |-> TRUE,
                     state |-> <<curr_state>>, action |-> action,
                     result |-> 0, raised |-> TRUE,
                     calls |-> query.calls + 1]
        /\ UNCHANGED called

\* The last call, with what it drew for the transition.
Called(call, noise_in_transition) ==
    <<[call |-> call, noise_in_transition |-> noise_in_transition]>>

\* R(state, action, only_query=True) on an imagined list of states, the
\* list kept with the call.
CallRImagined ==
    \E state \in StateLists(config, augmented_state), action \in Actions(config) :
        /\ R(state, action, TRUE)
        /\ returns' = Called(<<"R", state, action>>, 0)
        /\ UNCHANGED <<continuous, total_episodes, codec, rng, twin, drawn>>

\* A sparse environment with sequences of length 2, a dense one, and one
\* with noise on the transitions and the rewards.
QueryConfigs ==
    {[BaseConfig EXCEPT !.action_space_size = 1, !.sequence_length = 2],
     [BaseConfig EXCEPT !.action_space_size = 1, !.sequence_length = 2,
                        !.make_denser = TRUE],
     [BaseConfig EXCEPT !.action_space_size = 1,
                        !.has_transition_noise = TRUE,
                        !.transition_noise = Density(1, 2),
                        !.has_reward_noise = TRUE, !.reward_noise = {-1, 1}]}

InitQuery ==
    /\ InitEnv(QueryConfigs)
    /\ NoContinuous
    /\ query = NoQuery
    /\ codec = <<>>
    /\ rng = <<>>
    /\ returns = <<>>
    /\ twin = <<>>
    /\ drawn = <<>>
    /\ total_episodes = 0

\* The steps between the calls.
StepOfCaller ==
    \E action \in Actions(config) :
        /\ total_transitions_episode < MaxQuerySteps
        /\ step(action)
        /\ UNCHANGED aux

NextQuery ==
    \/ Reset
    \/ StepOfCaller
    \/ CallP
    \/ CallR
    \/ CallStepOnlyQuery

\* Environments whose P and R are also called directly, between the steps.
SpecQuery == InitQuery /\ [][NextQuery]_vars

NextImagined ==
    \/ Reset
    \/ StepOfCaller
    \/ CallRImagined

\* Environments asked for the reward of imagined lists of states.
SpecImagined == InitQuery /\ [][NextImagined]_vars

----------------------------------------------------------------------------
(* The codec between multi-discrete vectors and flat indices *)

\* At most this many codec calls are made in a row.
MaxCalls == 2

\* The value of an irrelevant part that was not asked for.
None == -2

\* np.array(list)[np.array(indices)]: the entries at the 0-based indices.
Take(list, indices) == [n \in 1..Len(indices) |-> list[indices[n] + 1]]

RECURSIVE SortedList(_)
\* list(set): the members in ascending order, the order in which CPython
\* iterates a set of small non-negative integers.
SortedList(S) ==
    IF S = {} THEN <<>>
    ELSE LET least == CHOOSE x \in S : \A y \in S : x <= y
         IN  <<least>> \o SortedList(S \ {least})

\* The index tuples of an array of shape vector_maxes.
Vectors(vector_maxes) ==
    {v \in [DOMAIN vector_maxes -> 0..(Prod(vector_maxes) - 1)] :
        \A i \in DOMAIN vector_maxes : v[i] < vector_maxes[i]}

RECURSIVE RowMajor(_, _)
\* The position of entry `vector` when an array of shape vector_maxes is
\* read in C order: the last index varies fastest.
RowMajor(vector, vector_maxes) ==
    IF vector = <<>> THEN 0
    ELSE RowMajor(SubSeq(vector, 1, Len(vector) - 1),
                  SubSeq(vector_maxes, 1, Len(vector_maxes) - 1))
             * vector_maxes[Len(vector_maxes)]
         + vector[Len(vector)]

\* np.arange(np.prod(vector_maxes)).reshape(vector_maxes): entry number k
\* of the range is stored at the index tuple whose C-order position is k.
Reshaped(vector_maxes) ==
    [v \in Vectors(vector_maxes) |-> RowMajor(v, vector_maxes)]

\* Indexing the reshaped range raises IndexError off the array.
InRange(vector, vector_maxes) == vector \in Vectors(vector_maxes)

transform_multi_discrete_to_discrete(vector, vector_maxes) ==
    Reshaped(vector_maxes)[vector]

\* np.argwhere(array == scalar).flatten(): the index tuple of the entry
\* equal to scalar, the empty array when there is none.
transform_discrete_to_multi_discrete(scalar, vector_maxes) ==
    LET array == Reshaped(vector_maxes)
        hits == {v \in DOMAIN array : array[v] = scalar}
    IN  IF hits = {} THEN <<>> ELSE CHOOSE v \in hits : TRUE

\* What __init__ derives from a multi-discrete configuration.
relevant_state_space_maxes(cfg) ==
    Take(cfg.state_space_size, cfg.state_space_relevant_indices)

state_space_irrelevant_indices(cfg) ==
    SortedList({i - 1 : i \in DOMAIN cfg.state_space_size}
                   \ {cfg.state_space_relevant_indices[n] :
                          n \in DOMAIN cfg.state_space_relevant_indices})

irrelevant_state_space_maxes(cfg) ==
    Take(cfg.state_space_size, state_space_irrelevant_indices(cfg))

irrelevant_state_space_size(cfg) ==
    IF state_space_irrelevant_indices(cfg) = <<>>
    THEN 0
    ELSE Prod(irrelevant_state_space_maxes(cfg))

relevant_action_space_maxes(cfg) ==
    Take(cfg.action_space_size, cfg.action_space_relevant_indices)

action_space_irrelevant_indices(cfg) ==
    SortedList({i - 1 : i \in DOMAIN cfg.action_space_size}
                   \ {cfg.action_space_relevant_indices[n] :
                          n \in DOMAIN cfg.action_space_relevant_indices})

\* Set only when there are irrelevant action dimensions.
irrelevant_action_space_maxes(cfg) ==
    Take(cfg.action_space_size, action_space_irrelevant_indices(cfg))

\* multi_discrete_to_discrete raises: a vector off its array, or the
\* irrelevant parts of an action that has no irrelevant dimension.
multi_discrete_to_discrete_raises(cfg, state, action, irrelevant_parts) ==
    \/ ~InRange(Take(state, cfg.state_space_relevant_indices),
                relevant_state_space_maxes(cfg))
    \/ ~InRange(Take(action, cfg.action_space_relevant_indices),
                relevant_action_space_maxes(cfg))
    \/ /\ irrelevant_parts
       /\ \/ state_space_irrelevant_indices(cfg) = <<>>
          \/ action_space_irrelevant_indices(cfg) = <<>>
          \/ ~InRange(Take(state, state_space_irrelevant_indices(cfg)),
                      irrelevant_state_space_maxes(cfg))
          \/ ~InRange(Take(action, action_space_irrelevant_indices(cfg)),
                      irrelevant_action_space_maxes(cfg))

\* Mutant: the relevant part of the state is gathered at the irrelevant
\* indices.
multi_discrete_to_discrete_irrelevant(cfg, state, action, irrelevant_parts) ==
    <<transform_multi_discrete_to_discrete(
          Take(state, state_space_irrelevant_indices(cfg)),
          irrelevant_state_space_maxes(cfg)),
      transform_multi_discrete_to_discrete(
          Take(action, cfg.action_space_relevant_indices),
          relevant_action_space_maxes(cfg)),
      transform_multi_discrete_to_discrete(
          Take(state, state_space_irrelevant_indices(cfg)),
          irrelevant_state_space_maxes(cfg)),
      transform_multi_discrete_to_discrete(
          Take(action, action_space_irrelevant_indices(cfg)),
          irrelevant_action_space_maxes(cfg))>>

\* relevant_part_state, relevant_part_action, irrelevant_part_state,
\* irrelevant_part_action
multi_discrete_to_discrete(cfg, state, action, irrelevant_parts) ==
    <<transform_multi_discrete_to_discrete(
          Take(state, cfg.state_space_relevant_indices),
          relevant_state_space_maxes(cfg)),
      transform_multi_discrete_to_discrete(
          Take(action, cfg.action_space_relevant_indices),
          relevant_action_space_maxes(cfg)),
      IF irrelevant_parts
      THEN transform_multi_discrete_to_discrete(
               Take(state, state_space_irrelevant_indices(cfg)),
               irrelevant_state_space_maxes(cfg))
      ELSE None,
      IF irrelevant_parts
      THEN transform_multi_discrete_to_discrete(
               Take(action, action_space_irrelevant_indices(cfg)),
               irrelevant_action_space_maxes(cfg))
      ELSE None>>

\* combined_[indices] = values
Assign(combined_, indices, values) ==
    [n \in DOMAIN combined_ |->
        IF \E m \in DOMAIN indices : indices[m] = n - 1
        THEN values[CHOOSE m \in DOMAIN indices :
                        /\ indices[m] = n - 1
                        /\ \A l \in DOMAIN indices : indices[l] = n - 1 => l <= m]
        ELSE combined_[n]]

\* Without irrelevant dimensions the decoded relevant part is returned as
\* it is; with them both parts are written to their indices of a zero vector.
discrete_to_multi_discrete(cfg, relevant_part, irrelevant_part) ==
    LET relevant == transform_discrete_to_multi_discrete(
                        relevant_part, relevant_state_space_maxes(cfg))
    IN  IF irrelevant_state_space_size(cfg) > 0
        THEN Assign(Assign([n \in DOMAIN cfg.state_space_size |-> 0],
                           cfg.state_space_relevant_indices, relevant),
                    state_space_irrelevant_indices(cfg),
                    transform_discrete_to_multi_discrete(
                        irrelevant_part, irrelevant_state_space_maxes(cfg)))
        ELSE relevant

\* The index lists over n dimensions: every ordering of every non-empty
\* choice of dimensions.
IndexLists(n) ==
    UNION {{f \in [1..len -> 0..(n - 1)] :
                \A i, j \in 1..len : i # j => f[i] # f[j]} : len \in 1..n}

\* Multi-discrete configurations: 2 or 3 state dimensions of which any may
\* be relevant, in any order; one relevant action dimension, and an
\* irrelevant one when there are irrelevant state dimensions.
CodecConfigs ==
    {[state_space_size |-> sizes,
      state_space_relevant_indices |-> indices,
      action_space_size |-> IF Len(indices) < Len(sizes) THEN <<2, 2>> ELSE <<2>>,
      action_space_relevant_indices |-> <<0>>] :
        sizes \in {<<2, 3>>, <<2, 2, 3>>},
        indices \in IndexLists(2) \cup IndexLists(3)}

CodecConfigValid(cfg) ==
    \A n \in DOMAIN cfg.state_space_relevant_indices :
        cfg.state_space_relevant_indices[n] < Len(cfg.state_space_size)

\* The flat parts of a state: the relevant part and, when there are
\* irrelevant dimensions, the irrelevant part.
FlatParts(cfg) ==
    {<<relevant_part, irrelevant_part>> :
        relevant_part \in 0..(Prod(relevant_state_space_maxes(cfg)) - 1),
        irrelevant_part \in IF irrelevant_state_space_size(cfg) > 0
                            THEN 0..(irrelevant_state_space_size(cfg) - 1)
                            ELSE {None}}

\* A multi-discrete configuration and the first argument of a chain of
\* codec calls: a vector or flat parts, for the helper pair (over the whole
\* size vector) or the environment's pair.
InitCodec ==
    /\ pc = "ready"
    /\ config \in CodecConfigs
    /\ CodecConfigValid(config)
    /\ num_terminal_states = 0
    /\ relevant_init_state_dist = <<>>
    /\ transition_function = <<>>
    /\ specific_sequences = <<>>
    /\ curr_state = NaN
    /\ augmented_state = <<>>
    /\ possible_remaining_sequences = <<>>
    /\ reward = 0
    /\ done = FALSE
    /\ total_transitions_episode = 0
    /\ total_noisy_transitions_episode = 0
    /\ total_abs_noise_in_reward_episode = 0
    /\ total_reward_episode = 0
    /\ trajectory = <<>>
    /\ rng = <<>>
    /\ returns = <<>>
    /\ twin = <<>>
    /\ drawn = <<>>
    /\ total_episodes = 0
    /\ NoContinuous
    /\ query = <<>>
    /\ \E helper \in BOOLEAN, action \in Vectors(config.action_space_size) :
        \/ \E state \in Vectors(config.state_space_size) :
               codec = [helper |-> helper, side |-> "multi_discrete",
                        state |-> state, action |-> action, parts |-> <<>>,
                        input |-> state, calls |-> 0]
        \/ \E parts \in IF helper
                        THEN {<<scalar>> :
                                 scalar \in 0..(Prod(config.state_space_size) - 1)}
                        ELSE FlatParts(config) :
               codec = [helper |-> helper, side |-> "discrete",
                        state |-> <<>>, action |-> action, parts |-> parts,
                        input |-> parts, calls |-> 0]

CodecCall(helper, side) ==
    /\ codec.helper = helper
    /\ codec.side = side
    /\ codec.calls < MaxCalls
    /\ UNCHANGED <<pc, tables, episode, continuous, total_episodes, query, rng, returns, twin, drawn>>

TransformMultiDiscreteToDiscrete ==
    /\ CodecCall(TRUE, "multi_discrete")
    /\ codec' =
           IF InRange(codec.state, config.state_space_size)
           THEN [codec EXCEPT
                    !.parts = <<transform_multi_discrete_to_discrete(
                                    codec.state, config.state_space_size)>>,
                    !.side = "discrete", !.calls = @ + 1]
           ELSE [codec EXCEPT !.side = "raised", !.calls = @ + 1]

TransformDiscreteToMultiDiscrete ==
    /\ CodecCall(TRUE, "discrete")
    /\ codec' = [codec EXCEPT
                    !.state = transform_discrete_to_multi_discrete(
                                  codec.parts[1], config.state_space_size),
                    !.side = "multi_discrete", !.calls = @ + 1]

\* As transition_function calls it: the irrelevant parts are asked for when
\* the state has irrelevant dimensions.
MultiDiscreteToDiscrete ==
    /\ CodecCall(FALSE, "multi_discrete")
    /\ LET irrelevant_parts == irrelevant_state_space_size(config) > 0
           flat == multi_discrete_to_discrete(config, codec.state, codec.action,
                                              irrelevant_parts)
       IN  codec' =
               IF multi_discrete_to_discrete_raises(config, codec.state,
                                                    codec.action, irrelevant_parts)
               THEN [codec EXCEPT !.side = "raised", !.calls = @ + 1]
               ELSE [codec EXCEPT !.parts = <<flat[1], flat[3]>>,
                                  !.side = "discrete", !.calls = @ + 1]

\* As transition_function and reset call it.
DiscreteToMultiDiscrete ==
    /\ CodecCall(FALSE, "discrete")
    /\ codec' = [codec EXCEPT
                    !.state = discrete_to_multi_discrete(config, codec.parts[1],
                                                         codec.parts[2]),
                    !.side = "multi_discrete", !.calls = @ + 1]

NextCodec ==
    \/ TransformMultiDiscreteToDiscrete
    \/ TransformDiscreteToMultiDiscrete
    \/ MultiDiscreteToDiscrete
    \/ DiscreteToMultiDiscrete

\* Chains of codec calls, each applied to the result of the one before.
SpecCodec == InitCodec /\ [][NextCodec]_vars

----------------------------------------------------------------------------
(* Multi-discrete environments with irrelevant dimensions: two runs of one  *)
(* environment that differ in the irrelevant parts only                    *)

\* Step is disabled once an episode of these has this many transitions.
MaxMultiSteps == 2

\* config["irrelevant_action_space_size"]
irrelevant_action_space_size(cfg) ==
    IF action_space_irrelevant_indices(cfg) = <<>>
    THEN 0
    ELSE Prod(irrelevant_action_space_maxes(cfg))

\* The configuration as the relevant part of the code reads it:
\* config["relevant_state_space_size"] and config["relevant_action_space_size"].
RelevantConfig(cfg) ==
    [cfg EXCEPT !.state_space_size = Prod(relevant_state_space_maxes(cfg)),
                !.action_space_size = Prod(relevant_action_space_maxes(cfg))]

\* The same for the irrelevant part.
IrrelevantConfig(cfg) ==
    [cfg EXCEPT !.state_space_size = irrelevant_state_space_size(cfg),
                !.action_space_size = irrelevant_action_space_size(cfg)]

\* init_transition_function, irrelevant part, not completely connected:
\* every entry is an independent draw from the irrelevant state set.
TransitionTablesIrrelevant(cfg) ==
    [States(IrrelevantConfig(cfg)) ->
        [Actions(IrrelevantConfig(cfg)) -> States(IrrelevantConfig(cfg))]]

\* The irrelevant next states P can produce from
\* transition_function_irrelevant[state_irrelevant][action_irrelevant].
NextStatesIrrelevant(cfg, next_state_irrelevant) ==
    IF cfg.has_transition_noise
    THEN SampleProb(NoiseProbs(IrrelevantConfig(cfg), next_state_irrelevant))
    ELSE {next_state_irrelevant}

\* The fields of a run that a reset or a step writes.
Run(state, aug, prs, rew, is_done, noisy) ==
    [curr_state |-> state, augmented_state |-> aug,
     possible_remaining_sequences |-> prs, reward |-> rew, done |-> is_done,
     total_noisy_transitions_episode |-> noisy]

\* reset() of a multi-discrete environment with irrelevant dimensions.
ResetRun(cfg, seqs, relevant, irrelevant, rew, is_done) ==
    Run(discrete_to_multi_discrete(cfg, relevant, irrelevant),
        ResetAugmentedState(RelevantConfig(cfg), relevant),
        ResetPossibleRemainingSequences(RelevantConfig(cfg), seqs),
        rew, is_done, 0)

\* step(action) of a multi-discrete environment whose action has
\* irrelevant dimensions: P on both parts, R on the augmented state of
\* relevant states, done from its last entry.
SteppedRun(cfg, nts, seqs, run, looked_up, new_next_state, new_irrelevant, noise_in_reward) ==
    LET rel == RelevantConfig(cfg)
        aug == PushAugmentedState(run.augmented_state, new_next_state)
        base == BaseReward(rel, seqs, run.possible_remaining_sequences, aug)
        is_done == IsTerminalState(rel, nts, aug[Len(aug)])
    IN  Run(discrete_to_multi_discrete(cfg, new_next_state, new_irrelevant),
            aug,
            IF cfg.make_denser
            THEN RebuildPossibleRemainingSequences(rel, seqs, aug)
            ELSE run.possible_remaining_sequences,
            ReturnedReward(rel, base, noise_in_reward, is_done),
            is_done,
            NoisyTransitions(rel, run.total_noisy_transitions_episode,
                             looked_up, new_next_state))

\* The run held in the variables of the environment.
ThisRun ==
    Run(curr_state, augmented_state, possible_remaining_sequences, reward, done,
        total_noisy_transitions_episode)

\* The last call with its action.
CalledMulti(call, action) == <<[call |-> call, action |-> action]>>

\* Both runs are reset to the same relevant state, each to an irrelevant
\* state of its own.
reset_multi_discrete ==
    /\ pc = "ready"
    /\ \E relevant \in InitialStates(relevant_init_state_dist),
          irrelevant, twin_irrelevant \in States(IrrelevantConfig(config)) :
        /\ curr_state' = discrete_to_multi_discrete(config, relevant, irrelevant)
        /\ augmented_state' = ResetAugmentedState(RelevantConfig(config), relevant)
        /\ trajectory' = <<relevant>>
        /\ twin' = ResetRun(config, specific_sequences, relevant, twin_irrelevant,
                            twin.reward, twin.done)
        /\ returns' = CalledMulti("reset", <<>>)
    /\ possible_remaining_sequences' =
           ResetPossibleRemainingSequences(RelevantConfig(config), specific_sequences)
    /\ total_transitions_episode' = 0
    /\ total_noisy_transitions_episode' = 0
    /\ total_abs_noise_in_reward_episode' = 0
    /\ total_reward_episode' = 0
    /\ UNCHANGED <<pc, tables, reward, done>>
    /\ UNCHANGED <<continuous, total_episodes, query, codec, rng, drawn>>

\* The two runs step with actions of the same relevant part. The generator
\* of the relevant state space and np_random are in the same state in both
\* runs, so the reward noise is the same and the resampled relevant state
\* is the same when the looked-up state, and so the probabilities handed to
\* the generator, are; a call
\* that raises in multi_discrete_to_discrete leaves IndexError or
\* AttributeError, depending on the numpy of the build, and changes nothing.
step_multi_discrete(action, twin_action) ==
    /\ pc = "ready"
    /\ total_transitions_episode < MaxMultiSteps
    /\ IF multi_discrete_to_discrete_raises(config, curr_state, action, TRUE)
       THEN /\ pc' \in {"IndexError", "AttributeError"}
            /\ returns' = CalledMulti("step", action)
            /\ UNCHANGED <<tables, episode, twin>>
       ELSE LET parts == multi_discrete_to_discrete(config, curr_state, action, TRUE)
                twin_parts == multi_discrete_to_discrete(config, twin.curr_state,
                                                         twin_action, TRUE)
                next_state == transition_function[parts[1]][parts[2]]
                twin_next_state == transition_function[twin_parts[1]][twin_parts[2]]
                next_state_irrelevant ==
                    config.transition_function_irrelevant[parts[3]][parts[4]]
                twin_next_state_irrelevant ==
                    config.transition_function_irrelevant[twin_parts[3]][twin_parts[4]]
            IN
            \E new_next_state \in NextStates(RelevantConfig(config), next_state) :
            \E twin_new_next_state \in
                   IF twin_next_state = next_state
                   THEN {new_next_state}
                   ELSE NextStates(RelevantConfig(config), twin_next_state),
               new_next_state_irrelevant \in
                   NextStatesIrrelevant(config, next_state_irrelevant),
               twin_new_next_state_irrelevant \in
                   NextStatesIrrelevant(config, twin_next_state_irrelevant),
               noise_in_reward \in RewardNoise(config) :
                LET run == SteppedRun(config, num_terminal_states, specific_sequences,
                                      ThisRun, next_state, new_next_state,
                                      new_next_state_irrelevant, noise_in_reward)
                IN
                /\ curr_state' = run.curr_state
                /\ augmented_state' = run.augmented_state
                /\ possible_remaining_sequences' = run.possible_remaining_sequences
                /\ reward' = run.reward
                /\ done' = run.done
                /\ total_noisy_transitions_episode' = run.total_noisy_transitions_episode
                /\ trajectory' = Append(trajectory, new_next_state)
                /\ total_transitions_episode' = total_transitions_episode + 1
                /\ total_abs_noise_in_reward_episode' =
                       total_abs_noise_in_reward_episode + Abs(noise_in_reward)
                /\ total_reward_episode' =
                       total_reward_episode
                           + BaseReward(RelevantConfig(config), specific_sequences,
                                        possible_remaining_sequences, run.augmented_state)
                /\ twin' = SteppedRun(config, num_terminal_states, specific_sequences,
                                      twin, twin_next_state, twin_new_next_state,
                                      twin_new_next_state_irrelevant, noise_in_reward)
                /\ returns' = CalledMulti("step", action)
                /\ UNCHANGED <<pc, tables>>
    /\ UNCHANGED <<continuous, total_episodes, query, codec, rng, drawn>>

\* Actions of the two runs with the same relevant part.
StepMultiDiscrete ==
    \E action, twin_action \in Vectors(config.action_space_size) :
        /\ Take(action, config.action_space_relevant_indices)
               = Take(twin_action, config.action_space_relevant_indices)
        /\ step_multi_discrete(action, twin_action)

\* Two relevant states of which one is terminal, two relevant actions,
\* the relevant dimension first or last.
BaseMultiConfig ==
    [BaseConfig EXCEPT !.state_space_size = <<2, 2>>,
                       !.action_space_size = <<2, 2>>,
                       !.terminal_state_density = Density(1, 2),
                       !.reward_density = Density(1, 1)]
    @@ [state_space_relevant_indices |-> <<0>>,
        action_space_relevant_indices |-> <<0>>]

\* Irrelevant dimensions of the state and of the action (of two values, or
\* of one), without and with transition_noise; and an action without
\* irrelevant dimensions.
MultiConfigs ==
    {BaseMultiConfig,
     [BaseMultiConfig EXCEPT !.state_space_relevant_indices = <<1>>,
                             !.action_space_size = <<1, 2>>,
                             !.action_space_relevant_indices = <<1>>],
     [BaseMultiConfig EXCEPT !.action_space_size = <<2, 1>>,
                             !.has_transition_noise = TRUE,
                             !.transition_noise = Density(1, 2)],
     [BaseMultiConfig EXCEPT !.action_space_size = <<2>>],
     [BaseMultiConfig EXCEPT !.action_space_size = <<2>>,
                             !.has_transition_noise = TRUE,
                             !.transition_noise = Density(1, 2)]}

InitMulti ==
    /\ \E cfg \in MultiConfigs :
       \E t \in TransitionTablesIrrelevant(cfg) :
        LET rel == RelevantConfig(cfg)
            nts == NumTerminalStates(rel)
        IN
        /\ ConfigValid(rel)
        /\ pc = "ready"
        /\ config = cfg @@ [transition_function_irrelevant |-> t]
        /\ num_terminal_states = nts
        /\ relevant_init_state_dist = RelevantInitStateDist(rel, nts)
        /\ transition_function \in TransitionTables(rel, nts)
        /\ specific_sequences \in SpecificSequences(rel, nts)
        /\ \E relevant \in InitialStates(RelevantInitStateDist(rel, nts)),
              irrelevant, twin_irrelevant \in States(IrrelevantConfig(cfg)) :
            /\ curr_state = discrete_to_multi_discrete(cfg, relevant, irrelevant)
            /\ augmented_state = ResetAugmentedState(rel, relevant)
            /\ trajectory = <<relevant>>
            /\ twin = ResetRun(cfg, specific_sequences, relevant, twin_irrelevant,
                               0, FALSE)
            /\ returns = CalledMulti("__init__", <<>>)
        /\ possible_remaining_sequences =
               ResetPossibleRemainingSequences(rel, specific_sequences)
    /\ reward = 0
    /\ done = FALSE
    /\ total_transitions_episode = 0
    /\ total_noisy_transitions_episode = 0
    /\ total_abs_noise_in_reward_episode = 0
    /\ total_reward_episode = 0
    /\ NoContinuous
    /\ query = <<>>
    /\ codec = <<>>
    /\ rng = <<>>
    /\ drawn = <<>>
    /\ total_episodes = 0

NextMulti ==
    \/ reset_multi_discrete
    \/ StepMultiDiscrete

\* Two runs of a multi-discrete environment with irrelevant dimensions.
SpecMulti == InitMulti /\ [][NextMulti]_vars

----------------------------------------------------------------------------
(* Two environments and their seeded generators *)

\* An environment has returned from at most this many calls, __init__ included.
MaxReturns == 3

\* The integer seeds given in config["seed"].
Seeds == {0, 1}

\* The seeds gym takes from the operating system when it is given None.
Entropy == {4, 5}

\* The values of np_random.randint(sys.maxsize) that the model tells apart.
SubSeeds == {2, 3}

\* Mutant: the seed is not handed on, as by self.seed().
SeedNpRandom_unseeded(seed_int, entropy) == [seed |-> entropy, pos |-> 0]

\* gym.utils.seeding.np_random(seed): a generator at the start of the
\* stream of the seed, or of a seed from the operating system for None.
SeedNpRandom(seed_int, entropy) ==
    [seed |-> IF seed_int = None THEN entropy ELSE seed_int, pos |-> 0]

\* A generator after n more values have been taken from it.
Advance(generator, n) == [generator EXCEPT !.pos = @ + n]

\* What the generators have given so far, with what a generator gives at
\* its position added if nothing was given there before.
Recorded(given, generator, call, value) ==
    LET key == <<generator.seed, generator.pos>> IN
    IF key \in DOMAIN given
    THEN given
    ELSE given @@ (key :> [call |-> call, value |-> value])

\* A generator is a function of its seed and position: what it gave there
\* before, to whichever environment, it gives again to the same call.
Agrees(given, generator, call, value) ==
    LET key == <<generator.seed, generator.pos>> IN
    (key \in DOMAIN given /\ given[key].call = call) => given[key].value = value

\* One value is taken from a generator.
Gives(generator, call, value) ==
    /\ Agrees(drawn, generator, call, value)
    /\ drawn' = Recorded(drawn, generator, call, value)

\* The environment held by the variables, as one value.
Env ==
    [pc |-> pc, config |-> config, num_terminal_states |-> num_terminal_states,
     relevant_init_state_dist |-> relevant_init_state_dist,
     transition_function |-> transition_function,
     specific_sequences |-> specific_sequences,
     curr_state |-> curr_state, augmented_state |-> augmented_state,
     possible_remaining_sequences |-> possible_remaining_sequences,
     reward |-> reward, done |-> done,
     total_transitions_episode |-> total_transitions_episode,
     total_noisy_transitions_episode |-> total_noisy_transitions_episode,
     total_abs_noise_in_reward_episode |-> total_abs_noise_in_reward_episode,
     total_reward_episode |-> total_reward_episode,
     trajectory |-> trajectory, rng |-> rng, returns |-> returns]

\* What a call returned: the observation, the reward and the done flag.
Returned(call) ==
    [call |-> call, observation |-> curr_state', reward |-> reward', done |-> done']

\* The next call of this environment: the one the other environment made
\* at this point if it is ahead, any call otherwise.
MayCall(call) ==
    IF Len(returns) < Len(twin.returns)
    THEN twin.returns[Len(returns) + 1].call = call
    ELSE Len(returns) < MaxReturns

\* __init__, "#seed": self.seed(seed), the seven sub-seeds drawn from
\* np_random in turn, of which the state space is seeded with the first.
TwinSeed ==
    /\ pc = "seed"
    /\ pc' = "init_terminal_states"
    /\ \E entropy \in Entropy, relevant_state_space \in SubSeeds :
        LET np_random == SeedNpRandom(config.seed, entropy) IN
        /\ Gives(np_random, <<"randint">>, relevant_state_space)
        /\ rng' = [np_random |-> Advance(np_random, 7),
                   relevant_observation_space |->
                       SeedNpRandom(relevant_state_space, entropy)]
    /\ UNCHANGED <<tables, episode, continuous, total_episodes, query, codec, returns, twin>>

TwinInitTerminalStates ==
    init_terminal_states /\ UNCHANGED <<continuous, total_episodes, query, codec, rng, returns, twin, drawn>>

TwinInitInitStateDist ==
    init_init_state_dist /\ UNCHANGED <<continuous, total_episodes, query, codec, rng, returns, twin, drawn>>

\* The rows are sampled from the state space's generator.
TwinInitTransitionFunction ==
    /\ init_transition_function
    /\ Gives(rng.relevant_observation_space, <<"sample", "rows">>,
             transition_function')
    /\ rng' = [rng EXCEPT !.relevant_observation_space = Advance(@, 1)]
    /\ UNCHANGED <<continuous, total_episodes, query, codec, returns, twin>>

\* The sequence numbers are chosen by np_random.
TwinInitRewardFunction ==
    /\ init_reward_function
    /\ Gives(rng.np_random, <<"choice", "sequences">>, specific_sequences')
    /\ rng' = [rng EXCEPT !.np_random = Advance(@, 1)]
    /\ UNCHANGED <<continuous, total_episodes, query, codec, returns, twin>>

\* The first state is chosen by np_random; __init__ returns.
TwinInitReset ==
    /\ init_reset
    /\ Gives(rng.np_random, <<"choice", relevant_init_state_dist>>, curr_state')
    /\ rng' = [rng EXCEPT !.np_random = Advance(@, 1)]
    /\ returns' = <<Returned(<<"__init__">>)>>
    /\ UNCHANGED <<continuous, total_episodes, query, codec, twin>>

TwinReset ==
    /\ MayCall(<<"reset">>)
    /\ reset
    /\ Gives(rng.np_random, <<"choice", relevant_init_state_dist>>, curr_state')
    /\ rng' = [rng EXCEPT !.np_random = Advance(@, 1)]
    /\ returns' = Append(returns, Returned(<<"reset">>))
    /\ UNCHANGED <<continuous, total_episodes, query, codec, twin>>

\* The noise a step added to its reward.
NoiseInReward ==
    (reward' - (total_reward_episode' - total_reward_episode)
        - (IF done'
           THEN config.term_state_reward * config.reward_scale
                    * config.sequence_length
           ELSE 0))
      \div config.sequence_length - config.reward_shift

\* step(action): with transition_noise the next state is sampled from the
\* state space's generator, and reward_noise is a function of np_random.
TwinStep ==
    \E action \in Actions(config) :
        /\ MayCall(<<"step", action>>)
        /\ step(action)
        /\ LET probs == NoiseProbs(config, transition_function[curr_state][action])
               sampled == IF config.has_transition_noise
                          THEN Recorded(drawn, rng.relevant_observation_space,
                                        <<"sample", probs>>, curr_state')
                          ELSE drawn
           IN
           /\ config.has_transition_noise =>
                  Agrees(drawn, rng.relevant_observation_space,
                         <<"sample", probs>>, curr_state')
           /\ config.has_reward_noise =>
                  Agrees(sampled, rng.np_random, <<"reward_noise">>, NoiseInReward)
           /\ drawn' = IF config.has_reward_noise
                       THEN Recorded(sampled, rng.np_random, <<"reward_noise">>,
                                     NoiseInReward)
                       ELSE sampled
        /\ rng' = [np_random |->
                       Advance(rng.np_random,
                               IF config.has_reward_noise THEN 1 ELSE 0),
                   relevant_observation_space |->
                       Advance(rng.relevant_observation_space,
                               IF config.has_transition_noise THEN 1 ELSE 0)]
        /\ returns' = Append(returns, Returned(<<"step", action>>))
        /\ UNCHANGED <<continuous, total_episodes, query, codec, twin>>

\* The program turns to its other environment.
Swap ==
    /\ pc = "ready"
    /\ twin' = Env
    /\ pc' = twin.pc
    /\ config' = twin.config
    /\ num_terminal_states' = twin.num_terminal_states
    /\ relevant_init_state_dist' = twin.relevant_init_state_dist
    /\ transition_function' = twin.transition_function
    /\ specific_sequences' = twin.specific_sequences
    /\ curr_state' = twin.curr_state
    /\ augmented_state' = twin.augmented_state
    /\ possible_remaining_sequences' = twin.possible_remaining_sequences
    /\ reward' = twin.reward
    /\ done' = twin.done
    /\ total_transitions_episode' = twin.total_transitions_episode
    /\ total_noisy_transitions_episode' = twin.total_noisy_transitions_episode
    /\ total_abs_noise_in_reward_episode' = twin.total_abs_noise_in_reward_episode
    /\ total_reward_episode' = twin.total_reward_episode
    /\ trajectory' = twin.trajectory
    /\ rng' = twin.rng
    /\ returns' = twin.returns
    /\ UNCHANGED <<continuous, total_episodes, query, codec, drawn>>

\* One action, with and without noise on the transitions and the rewards.
TwinConfigs ==
    {[BaseConfig EXCEPT !.seed = seed_int, !.action_space_size = 1,
                        !.has_transition_noise = noisy,
                        !.transition_noise =
                            IF noisy THEN Density(1, 2) ELSE Density(0, 1),
                        !.has_reward_noise = noisy,
                        !.reward_noise = IF noisy THEN {-1, 1} ELSE {0}] :
        seed_int \in Seeds, noisy \in BOOLEAN}

\* An environment about to be constructed.
InitFresh ==
    /\ pc = "seed"
    /\ config \in TwinConfigs
    /\ ConfigValid(config)
    /\ num_terminal_states = 0
    /\ relevant_init_state_dist = <<>>
    /\ transition_function = <<>>
    /\ specific_sequences = <<>>
    /\ curr_state = NaN
    /\ augmented_state = <<>>
    /\ possible_remaining_sequences = <<>>
    /\ reward = 0
    /\ done = FALSE
    /\ total_transitions_episode = 0
    /\ total_noisy_transitions_episode = 0
    /\ total_abs_noise_in_reward_episode = 0
    /\ total_reward_episode = 0
    /\ trajectory = <<>>
    /\ codec = <<>>
    /\ rng = <<>>
    /\ returns = <<>>
    /\ drawn = <<>>
    /\ total_episodes = 0
    /\ NoContinuous
    /\ query = <<>>

\* Two environments about to be constructed from equal configurations.
InitTwin == InitFresh /\ twin = Env

NextTwin ==
    \/ TwinSeed
    \/ TwinInitTerminalStates
    \/ TwinInitInitStateDist
    \/ TwinInitTransitionFunction
    \/ TwinInitRewardFunction
    \/ TwinInitReset
    \/ TwinReset
    \/ TwinStep
    \/ Swap

\* Two environments constructed one after the other and called in turn,
\* each with the calls the other is given.
SpecTwin == InitTwin /\ [][NextTwin]_vars

----------------------------------------------------------------------------
(* Two environments constructed from one configuration record *)

\* __init__ keeps the caller's dict (self.config = config) and the init_*
\* methods store relevant_init_state_dist and transition_function in it: two
\* environments given the same dict hold these in common. The program
\* turns to its other environment; before constructing it, the caller has
\* set config["seed"] to the seed of that environment.
SwapShared ==
    /\ pc = "ready"
    /\ twin' = Env
    /\ pc' = twin.pc
    /\ config' = IF twin.pc = "seed"
                 THEN [config EXCEPT !.seed = twin.config.seed]
                 ELSE config
    /\ num_terminal_states' = twin.num_terminal_states
    /\ specific_sequences' = twin.specific_sequences
    /\ curr_state' = twin.curr_state
    /\ augmented_state' = twin.augmented_state
    /\ possible_remaining_sequences' = twin.possible_remaining_sequences
    /\ reward' = twin.reward
    /\ done' = twin.done
    /\ total_transitions_episode' = twin.total_transitions_episode
    /\ total_noisy_transitions_episode' = twin.total_noisy_transitions_episode
    /\ total_abs_noise_in_reward_episode' = twin.total_abs_noise_in_reward_episode
    /\ total_reward_episode' = twin.total_reward_episode
    /\ trajectory' = twin.trajectory
    /\ rng' = twin.rng
    /\ returns' = twin.returns
    /\ UNCHANGED <<relevant_init_state_dist, transition_function,
                   continuous, total_episodes, query, codec, drawn>>

\* The second environment is given another seed.
InitShared ==
    /\ InitFresh
    /\ ~config.has_transition_noise
    /\ config.seed = 0
    /\ \E seed_int \in Seeds \ {config.seed} :
           twin = [Env EXCEPT !.config.seed = seed_int]

NextShared ==
    \/ TwinSeed
    \/ TwinInitTerminalStates
    \/ TwinInitInitStateDist
    \/ TwinInitTransitionFunction
    \/ TwinInitRewardFunction
    \/ TwinInitReset
    \/ TwinReset
    \/ TwinStep
    \/ SwapShared

\* Two environments constructed one after the other from the same dict with
\* different seeds, and called in turn.
SpecShared == InitShared /\ [][NextShared]_vars

----------------------------------------------------------------------------
(* Continuous environments: move_to_a_point                                *)
(*                                                                         *)
(* States, actions and derivatives are vectors of integers; the            *)
(* configurations keep every quotient of the dynamics exact, so that the   *)
(* float arithmetic of the source is the integer arithmetic here.          *)

\* A continuous environment takes at most this many steps in an episode.
MaxContinuousSteps == 2

\* np.array([0.0] * dim)
ZeroState(dim) == [i \in 1..dim |-> 0]

\* [np.nan] * state_space_dim
NanState(dim) == [i \in 1..dim |-> NaN]

\* a / b of floats, for b dividing a.
Quotient(a, b) == a \div b

RECURSIVE Factorial(_)
\* scipy.special.factorial
Factorial(n) == IF n = 0 THEN 1 ELSE n * Factorial(n - 1)

\* The sum of the squares of a vector's components.
SumOfSquares(v) ==
    LET RECURSIVE Upto(_)
        Upto(i) == IF i = 0 THEN 0 ELSE Upto(i - 1) + v[i] * v[i]
    IN  Upto(Len(v))

\* np.linalg.norm(v) < radius, for integers: the squares compared.
NormLess(v, radius) == radius > 0 /\ SumOfSquares(v) < radius * radius

\* np.linalg.norm(v) of a vector whose norm is an integer.
Norm(v) == CHOOSE n \in 0..SumOfSquares(v) : n * n = SumOfSquares(v)

\* u - v
Minus(u, v) == [i \in DOMAIN u |-> u[i] - v[i]]

\* BoxExtended(-max, max).contains(x)
BoxContains(x, max) == \A i \in DOMAIN x : -max <= x[i] /\ x[i] <= max

\* BoxExtended(-max, max, shape=(dim,)).sample(): a point of the box.
BoxSample(dim, max) == [1..dim -> (-max)..max]

\* np.clip(x, lo, hi)
Clip(x, lo, hi) ==
    [i \in DOMAIN x |-> IF x[i] < lo THEN lo ELSE IF x[i] > hi THEN hi ELSE x[i]]

\* term_spaces[i].contains(s[relevant]): the hypercube of edge
\* term_state_edge centred on terminal_states[i], bounds included.
InTermSpace(cfg, i, relevant) ==
    \A j \in DOMAIN relevant :
        /\ 2 * cfg.terminal_states[i][j] - cfg.term_state_edge <= 2 * relevant[j]
        /\ 2 * relevant[j] <= 2 * cfg.terminal_states[i][j] + cfg.term_state_edge

\* self.is_terminal_state(s) of a continuous environment.
IsTerminalPoint(cfg, s) ==
    \E i \in DOMAIN cfg.terminal_states :
        InTermSpace(cfg, i, Take(s, cfg.state_space_relevant_indices))

\* Mutant: a state sampled in a terminal hypercube is kept.
InitialPoints_any(cfg) == BoxSample(cfg.state_space_dim, cfg.state_space_max)

\* reset(): the states the resampling loop can end with.
InitialPoints(cfg) ==
    {s \in BoxSample(cfg.state_space_dim, cfg.state_space_max) :
        ~IsTerminalPoint(cfg, s)}

\* reset(): [zero_state, ...] with state_derivatives[0] = self.curr_state
ResetStateDerivatives(cfg, s) ==
    [i \in 1..(cfg.transition_dynamics_order + 1) |->
        IF i = 1 THEN s ELSE ZeroState(cfg.state_space_dim)]

\* reset(): [[nan] * dim] * (augmented_state_length - 1) + [curr_state]
ResetAugmentedPoints(cfg, s) ==
    [i \in 1..AugmentedStateLength(cfg) |->
        IF i < AugmentedStateLength(cfg) THEN NanState(cfg.state_space_dim) ELSE s]

\* Mutant: the action is taken as the derivative whatever the inertia.
WithForce_massless(derivatives, action, cfg) ==
    [derivatives EXCEPT ![Len(derivatives)] = action]

\* state_derivatives[-1] = action / self.inertia
WithForce(derivatives, action, cfg) ==
    [derivatives EXCEPT
        ![Len(derivatives)] =
            [c \in DOMAIN action |-> Quotient(action[c], cfg.inertia)]]

RECURSIVE IntegratedDownwards(_, _, _, _)
\* The same passes with i running from the highest order down.
IntegratedDownwards(derivatives, i, j, cfg) ==
    IF i < 0 THEN derivatives
    ELSE IF j >= cfg.transition_dynamics_order - i
    THEN IntegratedDownwards(derivatives, i - 1, 0, cfg)
    ELSE IntegratedDownwards(
             [derivatives EXCEPT
                 ![i + 1] =
                     [c \in DOMAIN derivatives[i + 1] |->
                         derivatives[i + 1][c]
                         + Quotient(derivatives[i + j + 2][c]
                                        * Pow(cfg.time_unit, j + 1),
                                    Factorial(j + 1))]],
             i, j + 1, cfg)

\* Mutant: the higher derivatives are updated before the lower ones read
\* them.
Integrated_updated(derivatives, i, j, cfg) ==
    IntegratedDownwards(derivatives, cfg.transition_dynamics_order - 1, 0, cfg)

RECURSIVE Integrated(_, _, _, _)
\* The loops "for i in range(dynamics_order)", "for j in
\* range(dynamics_order - i)" from (i, j) on, each pass adding
\* state_derivatives[i + j + 1] * time_unit ** (j + 1) / factorial_array[j]
\* to state_derivatives[i] in place.
Integrated(derivatives, i, j, cfg) ==
    IF i >= cfg.transition_dynamics_order THEN derivatives
    ELSE IF j >= cfg.transition_dynamics_order - i
    THEN Integrated(derivatives, i + 1, 0, cfg)
    ELSE Integrated(
             [derivatives EXCEPT
                 ![i + 1] =
                     [c \in DOMAIN derivatives[i + 1] |->
                         derivatives[i + 1][c]
                         + Quotient(derivatives[i + j + 2][c]
                                        * Pow(cfg.time_unit, j + 1),
                                    Factorial(j + 1))]],
             i, j + 1, cfg)

\* The values config["transition_noise"](np_random) can return, a scalar
\* added to every component; 0 when absent.
TransitionNoise(cfg) ==
    IF cfg.has_transition_noise THEN cfg.transition_noise ELSE {0}

\* next_state += noise_in_transition
Noised(next_state, noise_in_transition) ==
    [c \in DOMAIN next_state |-> next_state[c] + noise_in_transition]

\* Mutant: the derivatives are kept when the state is clipped.
ClippedDerivatives_kept(cfg, derivatives, next_state) ==
    [derivatives EXCEPT ![1] = next_state]

\* The clipping branch: every derivative zero, state_derivatives[0] the
\* clipped state.
ClippedDerivatives(cfg, derivatives, next_state) ==
    ResetStateDerivatives(cfg, next_state)

\* np.array(state_considered)[-1 - delay, state_space_relevant_indices]
DelayedPoint(cfg, state_considered) ==
    Take(state_considered[Len(state_considered) - cfg.delay],
         cfg.state_space_relevant_indices)

\* np.array(state_considered)[-2 - delay, state_space_relevant_indices]
OldDelayedPoint(cfg, state_considered) ==
    Take(state_considered[Len(state_considered) - 1 - cfg.delay],
         cfg.state_space_relevant_indices)

\* np.isnan(state_considered[0][0])
TooYoung(state_considered) == state_considered[1][1] = NaN

\* The reward of move_to_a_point before noise and shift: nothing while the
\* oldest entry is nan; then the distance gained on target_point (dense) or
\* reward_scale within target_radius (sparse), of the delayed state.
PointReward(cfg, state_considered) ==
    IF TooYoung(state_considered) THEN 0
    ELSE IF cfg.make_denser
    THEN (Norm(Minus(OldDelayedPoint(cfg, state_considered), cfg.target_point))
          - Norm(Minus(DelayedPoint(cfg, state_considered), cfg.target_point)))
         * cfg.reward_scale
    ELSE IF NormLess(Minus(DelayedPoint(cfg, state_considered), cfg.target_point),
                     cfg.target_radius)
    THEN cfg.reward_scale
    ELSE 0

\* self.reached_terminal after R: set, in the sparse and in the dense
\* variant, when the state handed to R (not the delayed one) is within
\* target_radius of target_point and the oldest entry is not nan.
ReachedTerminal(cfg, reached, state_considered, state) ==
    IF TooYoung(state_considered) THEN reached
    ELSE reached
         \/ NormLess(Minus(Take(state, cfg.state_space_relevant_indices),
                           cfg.target_point),
                     cfg.target_radius)

\* Mutant: only the terminal hypercubes end the episode.
Done_hypercubes(cfg, last, reached) == IsTerminalPoint(cfg, last)

\* self.done = self.is_terminal_state(self.augmented_state[-1])
\*             or self.reached_terminal
Done(cfg, last, reached) == IsTerminalPoint(cfg, last) \/ reached

\* Mutant: an action outside the action space is applied like any other.
ActionApplies_always(cfg, action) == TRUE

\* self.action_space.contains(action)
ActionApplies(cfg, action) == BoxContains(action, cfg.action_space_max)

\* reset() of a continuous environment.
reset_continuous ==
    /\ pc = "ready"
    /\ \E s \in InitialPoints(config) :
        /\ curr_state' = s
        /\ state_derivatives' = ResetStateDerivatives(config, s)
        /\ augmented_state' = ResetAugmentedPoints(config, s)
    /\ reached_terminal' = FALSE
    /\ total_abs_noise_in_reward_episode' = 0
    /\ total_abs_noise_in_transition_episode' = 0
    /\ total_noisy_transitions_episode' = 0
    /\ total_reward_episode' = 0
    /\ total_transitions_episode' = 0
    /\ UNCHANGED <<pc, tables, possible_remaining_sequences, reward, done,
                   trajectory>>

\* step(action) of a continuous environment, for what transition_noise and
\* reward_noise draw from np_random: P (the dynamics or, for an action
\* outside the action space, the state as it is; the noise, added in place
\* to the array that is also state_derivatives[0]; the clipping), the push
\* of the augmented state, R on it, the done flag and the bonus.
step_continuous(action, noise_in_transition, noise_in_reward) ==
    /\ pc = "ready"
    /\ total_transitions_episode < MaxContinuousSteps
    /\ LET moved == IF ActionApplies(config, action)
                     THEN Integrated(WithForce(state_derivatives, action, config),
                                     0, 0, config)
                     ELSE state_derivatives
            noised == Noised(IF ActionApplies(config, action)
                             THEN moved[1] ELSE curr_state,
                             noise_in_transition)
            out == ~BoxContains(noised, config.state_space_max)
            next_state == IF out
                          THEN Clip(noised, -config.state_space_max,
                                    config.state_space_max)
                          ELSE noised
            aug == PushAugmentedState(augmented_state, next_state)
            base == PointReward(config, aug)
            reached == ReachedTerminal(config, reached_terminal, aug, next_state)
            is_done == Done(config, aug[Len(aug)], reached)
        IN
        /\ state_derivatives' =
               IF out
               THEN ClippedDerivatives(config, moved, next_state)
               ELSE [moved EXCEPT ![1] = noised]
        /\ total_abs_noise_in_transition_episode' =
               total_abs_noise_in_transition_episode + Abs(noise_in_transition)
        /\ curr_state' = next_state
        /\ augmented_state' = aug
        /\ total_transitions_episode' = total_transitions_episode + 1
        /\ reached_terminal' = reached
        /\ total_abs_noise_in_reward_episode' =
               total_abs_noise_in_reward_episode + Abs(noise_in_reward)
        /\ total_reward_episode' = total_reward_episode + base
        /\ done' = is_done
        /\ reward' = base + noise_in_reward + config.reward_shift
                     + (IF is_done
                        THEN config.term_state_reward * config.reward_scale
                        ELSE 0)
    /\ UNCHANGED <<pc, tables, possible_remaining_sequences,
                   total_noisy_transitions_episode, trajectory>>

\* What a continuous environment leaves alone.
discrete == <<query, codec, rng, twin, drawn, total_episodes>>

ResetContinuous ==
    /\ reset_continuous
    /\ returns' = Called(<<"reset">>, 0)
    /\ UNCHANGED discrete

\* The actions tried: nothing, -max or max along one axis, max and -max on
\* the first two axes at once, and 2 * max, outside the action space, on
\* the first axis.
ContinuousActions(cfg) ==
    {[i \in 1..cfg.state_space_dim |-> IF i = k THEN v ELSE 0] :
        k \in 1..cfg.state_space_dim,
        v \in {-cfg.action_space_max, 0, cfg.action_space_max}}
    \cup {[i \in 1..cfg.state_space_dim |->
              IF i = 1 THEN cfg.action_space_max
              ELSE IF i = 2 THEN -cfg.action_space_max ELSE 0],
          [i \in 1..cfg.state_space_dim |->
              IF i = 1 THEN 2 * cfg.action_space_max ELSE 0]}

StepContinuous ==
    \E action \in ContinuousActions(config),
       noise_in_transition \in TransitionNoise(config),
       noise_in_reward \in RewardNoise(config) :
        /\ step_continuous(action, noise_in_transition, noise_in_reward)
        /\ returns' = Called(<<"step", action>>, noise_in_transition)
        /\ UNCHANGED discrete

\* Two dimensions in [-2, 2], a terminal hypercube around (-2, -2), the
\* target (2, 2) with radius 2; first order with inertia 1 or 2 and
\* time_unit 1 or 2.
BaseContinuousConfig ==
    [state_space_dim |-> 2, state_space_max |-> 2, action_space_max |-> 1,
     transition_dynamics_order |-> 1, inertia |-> 1, time_unit |-> 1,
     sequence_length |-> 1, delay |-> 0, make_denser |-> FALSE,
     reward_scale |-> 2, reward_shift |-> 0, term_state_reward |-> 0,
     state_space_relevant_indices |-> <<0, 1>>,
     target_point |-> <<2, 2>>, target_radius |-> 2,
     terminal_states |-> <<<<-2, -2>>>>, term_state_edge |-> 2,
     has_transition_noise |-> FALSE, transition_noise |-> {0},
     has_reward_noise |-> FALSE, reward_noise |-> {0}]

\* With inertia 2 (actions up to 2), with time_unit 2, of second order,
\* with delay 1, with noise on the transitions, and with the dense reward
\* of one relevant dimension.
ContinuousConfigs ==
    {[BaseContinuousConfig EXCEPT !.inertia = 2, !.action_space_max = 2],
     [BaseContinuousConfig EXCEPT !.time_unit = 2],
     [BaseContinuousConfig EXCEPT !.transition_dynamics_order = 2,
                                  !.action_space_max = 2],
     [BaseContinuousConfig EXCEPT !.delay = 1, !.term_state_reward = 1],
     [BaseContinuousConfig EXCEPT !.has_transition_noise = TRUE,
                                  !.transition_noise = {-1, 1}],
     [BaseContinuousConfig EXCEPT !.make_denser = TRUE,
                                  !.state_space_relevant_indices = <<0>>,
                                  !.target_point = <<2>>,
                                  !.terminal_states = <<<<-2>>>>]}

\* A continuous environment after __init__, which ends with a reset.
InitContinuous ==
    /\ pc = "ready"
    /\ config \in ContinuousConfigs
    /\ num_terminal_states = 0
    /\ relevant_init_state_dist = <<>>
    /\ transition_function = <<>>
    /\ specific_sequences = <<>>
    /\ possible_remaining_sequences = <<>>
    /\ \E s \in InitialPoints(config) :
        /\ curr_state = s
        /\ state_derivatives = ResetStateDerivatives(config, s)
        /\ augmented_state = ResetAugmentedPoints(config, s)
    /\ reached_terminal = FALSE
    /\ reward = 0
    /\ done = FALSE
    /\ total_transitions_episode = 0
    /\ total_noisy_transitions_episode = 0
    /\ total_abs_noise_in_reward_episode = 0
    /\ total_abs_noise_in_transition_episode = 0
    /\ total_reward_episode = 0
    /\ trajectory = <<>>
    /\ query = <<>>
    /\ codec = <<>>
    /\ rng = <<>>
    /\ returns = Called(<<"__init__">>, 0)
    /\ twin = <<>>
    /\ drawn = <<>>
    /\ total_episodes = 0

NextContinuous == ResetContinuous \/ StepContinuous

\* Continuous environments under reset and step.
SpecContinuous == InitContinuous /\ [][NextContinuous]_vars

----------------------------------------------------------------------------
(* Discrete and continuous environments side by side *)

\* config["state_space_type"] == "discrete"
IsDiscrete(cfg) == "state_space_size" \in DOMAIN cfg

\* Discrete environments of 3 states and one action with one terminal
\* state (density 1/4, raised from 0 to 1) and with two (density 3/4).
ResetConfigs ==
    {[BaseConfig EXCEPT !.action_space_size = 1,
                        !.terminal_state_density = tsd] :
        tsd \in {Density(1, 4), Density(3, 4)}}

InitEither == (InitEnv(ResetConfigs) /\ NoAux) \/ InitContinuous

NextEither ==
    \/ IsDiscrete(config) /\ Next
    \/ ~IsDiscrete(config) /\ NextContinuous

\* An environment of either kind under reset and step.
SpecEither == InitEither /\ [][NextEither]_vars

----------------------------------------------------------------------------
(* __init__ from the checks of the configuration on *)

\* The assert statements of __init__, in their order; the irrelevant sizes
\* of a simple discrete environment are both 0.
Asserts(cfg) ==
    /\ cfg.action_space_type = cfg.state_space_type
    /\ cfg.sequence_length > 0
    /\ ("completely_connected" \in DOMAIN cfg /\ cfg.completely_connected)
           => cfg.state_space_size = cfg.action_space_size
    /\ cfg.state_space_type = "continuous" =>
        /\ cfg.state_space_dim = cfg.action_space_dim
        /\ cfg.state_space_relevant_indices = cfg.action_space_relevant_indices
        /\ cfg.reward_function = "move_to_a_point" =>
               Len(cfg.target_point) = Len(cfg.state_space_relevant_indices)

\* A discrete configuration with its two type keys.
DiscreteConfig(cfg, action_space_type) ==
    cfg @@ [state_space_type |-> "discrete",
            action_space_type |-> action_space_type]

\* A continuous configuration with its type keys and the keys of the
\* action space.
ContinuousConfig(cfg, action_space_dim) ==
    cfg @@ [state_space_type |-> "continuous",
            action_space_type |-> "continuous",
            action_space_dim |-> action_space_dim,
            action_space_relevant_indices |-> <<0, 1>>,
            reward_function |-> "move_to_a_point"]

\* Configurations handed to the constructor: sound ones of both kinds, and
\* ones with an action space of the other type, with completely_connected
\* and 2 actions for 3 states, with reward_density 5/4 or 2, with
\* action_space_dim 1 for state_space_dim 2, with a target_point of one
\* coordinate for two relevant dimensions.
CheckedConfigs ==
    {DiscreteConfig([BaseConfig EXCEPT !.action_space_size = 1], type) :
        type \in {"discrete", "continuous"}}
    \cup
    {DiscreteConfig([BaseConfig EXCEPT !.completely_connected = TRUE,
                                       !.action_space_size = n], "discrete") :
        n \in 2..3}
    \cup
    {DiscreteConfig([BaseConfig EXCEPT !.action_space_size = 1,
                                       !.reward_density = rd], "discrete") :
        rd \in {Density(1, 1), Density(5, 4), Density(2, 1)}}
    \cup
    {ContinuousConfig(BaseContinuousConfig, dim) : dim \in 1..2}
    \cup
    {ContinuousConfig([BaseContinuousConfig EXCEPT !.target_point = <<2>>], 2)}

\* Before __init__ has looked at the configuration.
InitChecked ==
    /\ pc = "__init__"
    /\ config \in CheckedConfigs
    /\ num_terminal_states = 0
    /\ relevant_init_state_dist = <<>>
    /\ transition_function = <<>>
    /\ specific_sequences = <<>>
    /\ curr_state = NaN
    /\ augmented_state = <<>>
    /\ possible_remaining_sequences = <<>>
    /\ reward = 0
    /\ done = FALSE
    /\ total_transitions_episode = 0
    /\ total_noisy_transitions_episode = 0
    /\ total_abs_noise_in_reward_episode = 0
    /\ total_reward_episode = 0
    /\ trajectory = <<>>
    /\ NoAux

\* __init__ up to self.config = config: a failed assert leaves it.
check_config ==
    /\ pc = "__init__"
    /\ pc' = IF ~Asserts(config) THEN "AssertionError"
             ELSE IF config.state_space_type = "discrete"
             THEN "init_terminal_states"
             ELSE "init_continuous"
    /\ UNCHANGED <<tables, episode>>

\* The init_* methods and the first reset of a continuous environment:
\* the discrete tables stay empty.
init_continuous ==
    /\ pc = "init_continuous"
    /\ pc' = "ready"
    /\ \E s \in InitialPoints(config) :
        /\ curr_state' = s
        /\ state_derivatives' = ResetStateDerivatives(config, s)
        /\ augmented_state' = ResetAugmentedPoints(config, s)
    /\ UNCHANGED <<tables, possible_remaining_sequences, reward, done,
                   total_transitions_episode, total_noisy_transitions_episode,
                   total_abs_noise_in_reward_episode, total_reward_episode,
                   trajectory, reached_terminal,
                   total_abs_noise_in_transition_episode>>

CheckConfig == check_config /\ UNCHANGED aux

InitOfContinuous == init_continuous /\ UNCHANGED discrete /\ UNCHANGED returns

NextChecked == CheckConfig \/ InitOfContinuous \/ NextInit

\* The constructor on sound and on contradictory configurations.
SpecChecked == InitChecked /\ [][NextChecked]_vars

----------------------------------------------------------------------------
(* Claims about construction, checked under SpecInit *)

\* The transition table has been built.
TableBuilt == pc \in {"init_reward_function", "reset", "ready"}

\* The rewardable sequences have been built.
SequencesBuilt == pc \in {"reset", "ready", "TypeError"}

NonTerminalStates(cfg, nts) == States(cfg) \ TerminalStates(cfg, nts)

\* C3: terminal absorption. Once the table is built, T[s][a] = s for every
\* terminal state s and every action a, whether or not the table is
\* completely connected.
C3_TerminalAbsorption ==
    TableBuilt =>
        \A s \in TerminalStates(config, num_terminal_states) :
            \A a \in Actions(config) : transition_function[s][a] = s

\* A completely connected table with two terminal states, whose
\* non-terminal state can move into a terminal one.
C3_Witness ==
    /\ pc = "ready"
    /\ config.completely_connected
    /\ num_terminal_states = 2
    /\ transition_function[0][0] = 2
    /\ transition_function[2][0] = 2

\* The row of state s holds every state exactly once.
RowIsPermutation(cfg, row) ==
    /\ {row[a] : a \in Actions(cfg)} = States(cfg)
    /\ \A a, b \in Actions(cfg) : a # b => row[a] # row[b]

\* init_terminal_states has run.
TerminalSetBuilt == pc # "init_terminal_states"

\* C23 as stated: discrete terminal set. The terminal states are the last k
\* states, k being terminal_state_density * state_space_size truncated to
\* an integer.
C23_TerminalSuffix ==
    TerminalSetBuilt =>
        LET k == (config.terminal_state_density.num * config.state_space_size)
                     \div config.terminal_state_density.den
        IN  /\ num_terminal_states = k
            /\ TerminalStates(config, num_terminal_states) =
                   (config.state_space_size - k)..(config.state_space_size - 1)

\* C23, amended: the terminal states are the last k states, k being
\* terminal_state_density * state_space_size truncated to an integer, or 1
\* when that is 0.
C23_TerminalSuffixAtLeastOne ==
    TerminalSetBuilt =>
        LET product == (config.terminal_state_density.num * config.state_space_size)
                           \div config.terminal_state_density.den
            k == IF product = 0 THEN 1 ELSE product
        IN  /\ num_terminal_states = k
            /\ TerminalStates(config, num_terminal_states) =
                   (config.state_space_size - k)..(config.state_space_size - 1)

\* With terminal_state_density 0 the environment of 3 states was built with
\* state 2 terminal: its row maps it to itself and it is never a first state.
C23_Witness ==
    /\ pc = "ready"
    /\ config.terminal_state_density = Density(0, 1)
    /\ config.state_space_size = 3
    /\ num_terminal_states = 1
    /\ \A a \in Actions(config) : transition_function[2][a] = 2
    /\ relevant_init_state_dist[2] = 0

\* C4 as stated: with completely_connected, every row of the table,
\* the rows of terminal states included, is a permutation of the state set.
C4_Original ==
    (TableBuilt /\ config.completely_connected) =>
        \A s \in States(config) : RowIsPermutation(config, transition_function[s])

\* C4 as amended: with completely_connected, the row of every non-terminal
\* state is a permutation of the state set; the row of a terminal state s
\* is s in every column.
C4_NonTerminalRowsArePermutations ==
    (TableBuilt /\ config.completely_connected) =>
        /\ \A s \in NonTerminalStates(config, num_terminal_states) :
               RowIsPermutation(config, transition_function[s])
        /\ \A s \in TerminalStates(config, num_terminal_states) :
               \A a \in Actions(config) : transition_function[s][a] = s

\* A completely connected table with two non-terminal rows, which differ.
C4_Witness ==
    /\ pc = "ready"
    /\ config.completely_connected
    /\ num_terminal_states = 1
    /\ transition_function[0] # transition_function[1]
    /\ RowIsPermutation(config, transition_function[0])

RECURSIVE NumberOfPermutations(_, _)
\* nPk = n (n-1) ... (n-k+1), 0 when k > n >= 0.
NumberOfPermutations(n, k) ==
    IF k = 0 THEN 1 ELSE n * NumberOfPermutations(n - 1, k - 1)

\* The number of sequences of the branch, over the non-terminal states.
PossibleSequences(cfg, nts) ==
    IF cfg.repeats_in_sequences
    THEN Pow(cfg.state_space_size - nts, cfg.sequence_length)
    ELSE NumberOfPermutations(cfg.state_space_size - nts, cfg.sequence_length)

\* round(density * x), halves rounded up.
RoundOfProduct(density, x) ==
    (2 * density.num * x + density.den) \div (2 * density.den)

\* 6 states, terminal_state_density 0, sequences of length 1, density 1/4.
IsSixStateConfig(cfg) ==
    /\ cfg.state_space_size = 6
    /\ cfg.terminal_state_density.num = 0
    /\ cfg.sequence_length = 1
    /\ cfg.reward_density = Density(1, 4)

C6_SequencesAvoidTerminalStates ==
    SequencesBuilt =>
        \A l \in DOMAIN RewardableSequences(config, specific_sequences) :
            LET seq == RewardableSequences(config, specific_sequences)[l] IN
            /\ Len(seq) = config.sequence_length
            /\ \A i \in DOMAIN seq :
                   seq[i] \in NonTerminalStates(config, num_terminal_states)

\* Three rewardable sequences of length 2 built with repeats, one of them
\* repeating the last non-terminal state, when __init__ raises.
C6_WitnessRepeats ==
    /\ pc = "TypeError"
    /\ config.repeats_in_sequences
    /\ config.sequence_length = 2
    /\ Len(RewardableSequences(config, specific_sequences)) = 3
    /\ In(<<1, 1>>, RewardableSequences(config, specific_sequences))

\* The one rewardable sequence of length 2 of an environment constructed
\* without repeats.
C6_Witness ==
    /\ pc = "ready"
    /\ ~config.repeats_in_sequences
    /\ config.sequence_length = 2
    /\ RewardableSequences(config, specific_sequences) = <<<<1, 0>>>>

----------------------------------------------------------------------------
(* Claims about reset and step *)

\* A step that was not a query has just been taken.
StepTaken == total_transitions_episode' = total_transitions_episode + 1

\* The reward of that step before noise and shift (x sequence_length).
StepBaseReward == total_reward_episode' - total_reward_episode

\* The states of steps first..first+len-1 of the episode, the reset state
\* being step 0.
StatesOfSteps(traj, first, len) == [n \in 1..len |-> traj[first + n]]

\* The sparse reward the delay law gives the step that made traj: scale if
\* the sequence_length states ending delay steps before it are a
\* rewardable sequence, 0 if they are not or the episode is too young.
DelayLawReward(cfg, seqs, traj) ==
    LET t == Len(traj) - 1
        first == t - cfg.delay - cfg.sequence_length + 1
    IN  IF /\ first >= 0
           /\ \E l \in DOMAIN RewardableSequences(cfg, seqs) :
                  RewardableSequences(cfg, seqs)[l]
                      = StatesOfSteps(traj, first, cfg.sequence_length)
        THEN cfg.reward_scale * cfg.sequence_length
        ELSE 0

\* C1: delay law. In a sparse environment the reward of every step t >= 1,
\* before noise and shift, is reward_scale if the sequence_length states
\* ending at step t - delay are a rewardable sequence and 0 otherwise.
C1_DelayLaw ==
    [][(StepTaken /\ ~config.make_denser) =>
          StepBaseReward = DelayLawReward(config, specific_sequences, trajectory')]_vars

\* With delay 2 and sequences of length 1: the rewardable state was entered
\* at step 1 and left at step 2, and step 3 is the one that was paid.
C1_Witness ==
    /\ config.delay = 2 /\ config.sequence_length = 1
    /\ total_transitions_episode = 3
    /\ In(<<trajectory[2]>>, RewardableSequences(config, specific_sequences))
    /\ ~In(<<trajectory[3]>>, RewardableSequences(config, specific_sequences))
    /\ ~In(<<trajectory[1]>>, RewardableSequences(config, specific_sequences))
    /\ total_reward_episode = config.reward_scale * config.sequence_length
    /\ reward = config.reward_scale * config.sequence_length

\* The last j states of traj were all entered by steps and are the first j
\* states of seq.
EnteredPrefix(traj, seq, j) ==
    /\ Len(traj) - 1 >= j
    /\ \A i \in 1..j : traj[Len(traj) - j + i] = seq[i]

\* The configurations C2 is about.
DenseTriples(cfg) ==
    /\ cfg.make_denser
    /\ cfg.sequence_length = 3
    /\ cfg.delay = 0
    /\ ~cfg.repeats_in_sequences

\* C2 as stated: the step that enters the j-th state of a rewardable triple,
\* after the steps that entered the states before it, is paid exactly
\* reward_scale * j / 3.
C2_Original ==
    [][(StepTaken /\ DenseTriples(config)) =>
          \A l \in DOMAIN RewardableSequences(config, specific_sequences) :
              \A j \in 1..3 :
                  EnteredPrefix(trajectory',
                                RewardableSequences(config, specific_sequences)[l], j)
                      => StepBaseReward = config.reward_scale * j]_vars

\* C2 as amended: that step is paid exactly reward_scale * j / 3 when the
\* triple is the only rewardable sequence, and at least that much
\* (reward_scale > 0) when there are others, whose matched prefixes add
\* their own shares.
C2_DensePrefixReward ==
    [][(StepTaken /\ DenseTriples(config)) =>
          \A l \in DOMAIN RewardableSequences(config, specific_sequences) :
              \A j \in 1..3 :
                  EnteredPrefix(trajectory',
                                RewardableSequences(config, specific_sequences)[l], j)
                      => /\ Len(RewardableSequences(config, specific_sequences)) = 1
                             => StepBaseReward = config.reward_scale * j
                         /\ config.reward_scale > 0
                             => StepBaseReward >= config.reward_scale * j]_vars

\* Three steps after reset have entered the three states of the only
\* rewardable triple, and the third was paid the full reward_scale.
C2_Witness ==
    /\ DenseTriples(config)
    /\ Len(RewardableSequences(config, specific_sequences)) = 1
    /\ total_transitions_episode = 3
    /\ EnteredPrefix(trajectory, RewardableSequences(config, specific_sequences)[1], 3)
    /\ reward = config.reward_scale * 3
    /\ total_reward_episode = config.reward_scale * (1 + 2 + 3)

\* The sum over j in 1..upto of count_j * reward_scale * j, count_j being the
\* number of entries of prs[j] equal to the j states of aug that end delay
\* entries before its last (x sequence_length).
DenseFormula(cfg, prs, aug, upto) ==
    LET c(j) == SubSeq(aug, Len(aug) - cfg.delay - j + 1, Len(aug) - cfg.delay)
        count(j) == Cardinality({l \in DOMAIN prs[j] : prs[j][l] = c(j)})
        RECURSIVE Sum(_)
        Sum(j) == IF j = 0 THEN 0
                  ELSE Sum(j - 1) + count(j) * cfg.reward_scale * j
    IN  Sum(upto)

\* C24: dense reward formula, under SpecDense. With make_denser the
\* pre-noise reward of a step is the sum over j in 1..sequence_length of
\* count_j * reward_scale * j / sequence_length, c_j being the length-j
\* slice of the augmented state ending delay steps before the present and
\* count_j its number of occurrences in possible_remaining_sequences[j - 1]
\* as the previous step or reset left it; duplicates each contribute.
C24_DenseRewardFormula ==
    [][(StepTaken /\ config.make_denser)
       => StepBaseReward =
              DenseFormula(config, possible_remaining_sequences,
                           augmented_state', config.sequence_length)]_vars

\* Two rewardable triples start with the state the first step entered: the
\* step is paid twice reward_scale * 1 / 3.
C24_Witness ==
    /\ config.make_denser
    /\ config.sequence_length = 3
    /\ Len(RewardableSequences(config, specific_sequences)) = 2
    /\ total_transitions_episode = 1
    /\ \A l \in 1..2 :
           RewardableSequences(config, specific_sequences)[l][1] = curr_state
    /\ total_reward_episode = 2 * config.reward_scale

\* C7: the augmented state has length delay + sequence_length + 1 after
\* construction and after every reset, step and query.
C7_AugmentedStateLength ==
    Len(augmented_state) = config.delay + config.sequence_length + 1

\* Four steps have pushed every padding entry out of a buffer of length 4,
\* and a query has moved curr_state away from its last entry.
C7_Witness ==
    /\ config.delay = 2 /\ config.sequence_length = 1
    /\ total_transitions_episode = 4
    /\ \A i \in DOMAIN augmented_state : augmented_state[i] # NaN
    /\ curr_state # augmented_state[Len(augmented_state)]

\* Neither noise is configured, or what is configured is zero.
NoNoise(cfg) ==
    /\ cfg.has_transition_noise => cfg.transition_noise.num = 0
    /\ cfg.has_reward_noise => cfg.reward_noise = {0}

\* C9: noise conservation. Without noise, or with both noises zero, the
\* per-episode noise counters are 0 in every reachable state.
C9_NoiseConservation ==
    NoNoise(config) =>
        /\ total_abs_noise_in_reward_episode = 0
        /\ total_noisy_transitions_episode = 0

\* transition_noise = 0 is configured, and three steps and a query later
\* the counters are still 0.
C9_Witness ==
    /\ config.has_transition_noise
    /\ config.transition_noise.num = 0
    /\ total_transitions_episode = 3
    /\ curr_state # augmented_state[Len(augmented_state)]
    /\ total_noisy_transitions_episode = 0
    /\ total_abs_noise_in_reward_episode = 0

\* C26: the discrete transition of a step, under SpecNoise (one action, 0).
\* Without transition_noise configured the next relevant state is
\* T[s][a]; with it configured the next state is a state of the relevant
\* set and total_noisy_transitions_episode grows by 1 exactly when that
\* state differs from T[s][a], and is unchanged otherwise.
C26_DiscreteTransition ==
    [][StepTaken =>
        LET looked_up == transition_function[curr_state][0] IN
        IF config.has_transition_noise
        THEN /\ curr_state' \in States(config)
             /\ total_noisy_transitions_episode' =
                    total_noisy_transitions_episode
                        + (IF curr_state' # looked_up THEN 1 ELSE 0)
        ELSE /\ curr_state' = looked_up
             /\ total_noisy_transitions_episode' = total_noisy_transitions_episode
      ]_vars

\* With transition_noise 1/2, the first step of an episode went where T
\* says and the second did not: one noisy transition is counted.
C26_Witness ==
    /\ config.has_transition_noise
    /\ config.transition_noise = Density(1, 2)
    /\ total_transitions_episode = 2
    /\ trajectory[2] = transition_function[trajectory[1]][0]
    /\ curr_state # transition_function[trajectory[2]][0]
    /\ total_noisy_transitions_episode = 1

\* Without transition_noise configured, two steps followed T.
C26_WitnessNoNoise ==
    /\ ~config.has_transition_noise
    /\ total_transitions_episode = 2
    /\ curr_state = transition_function[trajectory[2]][0]
    /\ total_noisy_transitions_episode = 0

\* C21: reward composition, under SpecReward. The reward of a step is the
\* base reward of the reward function, plus the reward noise drawn (0 when
\* none is configured), plus reward_shift unscaled, plus term_state_reward
\* * reward_scale exactly when done is returned; and
\* total_abs_noise_in_reward_episode grows by the absolute value of that
\* noise. (Rewards are held x sequence_length.)
C21_RewardComposition ==
    [][StepTaken =>
        \E noise \in RewardNoise(config) :
            /\ total_abs_noise_in_reward_episode' =
                   total_abs_noise_in_reward_episode + Abs(noise)
            /\ reward' =
                   BaseReward(config, specific_sequences,
                              possible_remaining_sequences, augmented_state')
                   + noise * config.sequence_length
                   + config.reward_shift * config.sequence_length
                   + (IF done'
                      THEN config.term_state_reward * config.reward_scale
                               * config.sequence_length
                      ELSE 0)]_vars

\* The first step ended the episode with noise 1: the reward is
\* 0 + 1 + 1 + 1 * 2.
C21_Witness ==
    /\ config.has_reward_noise
    /\ config.sequence_length = 1
    /\ config.reward_scale = 2
    /\ total_transitions_episode = 1
    /\ total_abs_noise_in_reward_episode = 1
    /\ total_reward_episode = 0
    /\ done
    /\ reward = 4

\* C11: TerminalStep. Once a step of the episode has returned done = true,
\* no step performs a transition before the next reset: the call fails.
C11_TerminalStep ==
    [][(total_transitions_episode > 0 /\ done) => ~StepTaken]_vars

\* A step was taken from a terminal state after the step that entered it had
\* returned done = true: it made a transition and returned done again.
C11_Witness ==
    /\ total_transitions_episode >= 2
    /\ done
    /\ IsTerminalState(config, num_terminal_states,
                       trajectory[Len(trajectory) - 1])
    /\ Len(trajectory) = total_transitions_episode + 1

----------------------------------------------------------------------------
(* Claims about direct calls of P and R, checked under SpecQuery *)

\* P has just been called.
PCalled == query'.calls = query.calls + 1 /\ query'.call = "P"

\* C12: P(s, a, only_query=True) returns the next state for (s, a) and
\* leaves augmented_state and total_transitions_episode unchanged; with
\* only_query=False it drops the oldest entry of augmented_state, appends the
\* next state and increments total_transitions_episode by exactly 1.
C12_OnlyQueryTransition ==
    [][PCalled =>
        /\ ~query'.raised
        /\ query'.result \in States(config)
        /\ ~config.has_transition_noise =>
               query'.result =
                   transition_function[query'.state[1]][query'.action]
        /\ IF query'.only_query
           THEN /\ augmented_state' = augmented_state
                /\ total_transitions_episode' = total_transitions_episode
           ELSE /\ augmented_state' =
                       Tail(augmented_state) \o <<query'.result>>
                /\ total_transitions_episode' = total_transitions_episode + 1
      ]_vars

\* P was called with only_query after a step, from a state other than the
\* current one, and the buffer still ends in the current state.
C12_Witness ==
    /\ query.call = "P"
    /\ query.only_query
    /\ query.calls = 1
    /\ query.state # <<curr_state>>
    /\ query.result # curr_state
    /\ total_transitions_episode = 1
    /\ augmented_state[Len(augmented_state)] = curr_state

\* P, R or step has just been called with only_query=True.
OnlyQueryCalled == query'.calls = query.calls + 1 /\ query'.only_query

\* C13: only_query is pure. A call of P, R or step with only_query=True
\* leaves curr_state, augmented_state, possible_remaining_sequences,
\* reached_terminal and the four per-episode counters as they were.
C13_OnlyQueryIsPure ==
    [][OnlyQueryCalled =>
        UNCHANGED <<curr_state, augmented_state, possible_remaining_sequences,
                    reached_terminal, total_reward_episode,
                    total_abs_noise_in_reward_episode,
                    total_noisy_transitions_episode,
                    total_transitions_episode>>
      ]_vars

\* R(states, a, only_query=True) has returned a reward for an imagined
\* sequence, and total_reward_episode holds it although no step was taken.
C13_Witness ==
    /\ query.call = "R"
    /\ query.only_query
    /\ ~query.raised
    /\ ~config.has_reward_noise
    /\ total_transitions_episode = 0
    /\ total_reward_episode = query.result
    /\ total_reward_episode > 0

----------------------------------------------------------------------------
(* Claims about two environments built from one dict, under SpecShared *)

\* C14: instance independence. Constructing, resetting or stepping one
\* environment never changes the transition table or the initial-state
\* distribution of another that is already constructed: while the program
\* is with one environment, the other's are what they were when it left it.
C14_InstanceIndependence ==
    twin.pc = "ready" =>
        /\ transition_function = twin.transition_function
        /\ relevant_init_state_dist = twin.relevant_init_state_dist

\* The second environment (seed 1) has been constructed and stepped; the
\* table in the dict, which the first environment (seed 0) reads at its next
\* step, is no longer the one the first environment sampled.
C14_Witness ==
    /\ pc = "ready"
    /\ twin.pc = "ready"
    /\ config.seed = 1
    /\ Len(twin.returns) = 1
    /\ Len(returns) = 2
    /\ returns[2].call = <<"step", 0>>
    /\ transition_function # twin.transition_function

----------------------------------------------------------------------------
(* Claims about the codec, checked under SpecCodec *)

\* After an even number of calls the chain is back on the side it began.
RoundTripMade == codec.calls > 0 /\ codec.calls % 2 = 0

BackToInput ==
    IF codec.side = "multi_discrete"
    THEN codec.state = codec.input
    ELSE codec.parts = codec.input

\* C8: codec round trip. Decoding what encoding a vector gave returns the
\* vector, and encoding what decoding flat parts gave returns the parts, for
\* the helper pair and for the environment's pair; no call of the trip raises.
C8_RoundTrip ==
    /\ codec.side # "raised"
    /\ RoundTripMade => BackToInput

\* The helper pair alone does round-trip.
C8_HelperRoundTrip ==
    codec.helper => (codec.side # "raised" /\ (RoundTripMade => BackToInput))

\* So does the environment's pair when the relevant indices are ascending.
C8_AscendingRoundTrip ==
    (\A n \in DOMAIN config.state_space_relevant_indices :
         n > 1 => config.state_space_relevant_indices[n - 1]
                      < config.state_space_relevant_indices[n])
        => (codec.side # "raised" /\ (RoundTripMade => BackToInput))

\* The helper pair has taken the vector (1, 2) of the sizes (2, 3) to 5 and back.
C8_HelperWitness ==
    /\ codec.helper
    /\ config.state_space_size = <<2, 3>>
    /\ codec.calls = 2
    /\ codec.input = <<1, 2>>
    /\ codec.parts = <<5>>
    /\ codec.state = <<1, 2>>

\* Sizes (2, 3) with relevant indices (1, 0): the state (0, 2) was encoded
\* as 4 and decoded as (2, 0).
C8_PermutedWitness ==
    /\ ~codec.helper
    /\ config.state_space_size = <<2, 3>>
    /\ config.state_space_relevant_indices = <<1, 0>>
    /\ codec.calls = 2
    /\ codec.input = <<0, 2>>
    /\ codec.parts = <<4, None>>
    /\ codec.state = <<2, 0>>

----------------------------------------------------------------------------
(* Claims about two environments, checked under SpecTwin *)

\* C10: determinism. Two environments constructed from equal
\* configurations with an integer seed and given the same calls return the
\* same observations, rewards and done flags from __init__, every reset and
\* every step.
C10_Determinism ==
    (twin.config = config /\ config.seed \in Seeds) =>
        \A n \in 1..Min(Len(returns), Len(twin.returns)) :
            returns[n] = twin.returns[n]

\* Both environments have been constructed, reset and stepped with noise on
\* the transition and on the reward, and a step moved them off the table.
C10_Witness ==
    /\ config.has_transition_noise
    /\ Len(returns) = 3
    /\ returns = twin.returns
    /\ returns[2].call = <<"reset">>
    /\ returns[3].call = <<"step", 0>>
    /\ returns[3].observation
           # transition_function[returns[2].observation][0]
    /\ returns[3].reward # 0

----------------------------------------------------------------------------
(* Claims about continuous environments, checked under SpecContinuous.     *)

\* The action of the step just taken and what it drew for the transition.
action_taken == returns'[1].call[2]
noise_taken == returns'[1].noise_in_transition

\* The integrated and noised next state of the step just taken, before any
\* clipping.
IntegratedAndNoised ==
    Noised(IF BoxContains(action_taken, config.action_space_max)
           THEN Integrated(WithForce(state_derivatives, action_taken, config),
                           0, 0, config)[1]
           ELSE curr_state,
           noise_taken)

\* C15: continuous clipping. A step whose integrated and noised next state
\* lies outside the observation box leaves every component of the state at
\* the nearest point of [-state_space_max, state_space_max] and every
\* higher derivative at zero; after every step the state is in the box.
C15_ContinuousClipping ==
    [][StepTaken =>
        /\ BoxContains(curr_state', config.state_space_max)
        /\ ~BoxContains(IntegratedAndNoised, config.state_space_max) =>
            /\ \A c \in 1..config.state_space_dim :
                curr_state'[c] =
                    IF IntegratedAndNoised[c] < -config.state_space_max
                    THEN -config.state_space_max
                    ELSE IF IntegratedAndNoised[c] > config.state_space_max
                    THEN config.state_space_max
                    ELSE IntegratedAndNoised[c]
            /\ Len(state_derivatives') = config.transition_dynamics_order + 1
            /\ state_derivatives'[1] = curr_state'
            /\ \A i \in 2..Len(state_derivatives') :
                state_derivatives'[i] = ZeroState(config.state_space_dim)]_vars

\* A second-order environment at the wall (2, 0) was pushed outwards by the
\* action (2, 0): it is still at the wall and its velocity is zero.
C15_Witness ==
    /\ config.transition_dynamics_order = 2
    /\ total_transitions_episode = 1
    /\ returns[1].call = <<"step", <<2, 0>>>>
    /\ augmented_state[Len(augmented_state) - 1] = <<2, 0>>
    /\ curr_state = <<2, 0>>
    /\ state_derivatives = <<<<2, 0>>, <<0, 0>>, <<0, 0>>>>
    /\ ~done

\* C16: continuous first-order law. With transition_dynamics_order = 1 and
\* no transition noise, a step whose action is inside the action box and
\* whose next state s + (a / inertia) * time_unit is inside the observation
\* box ends in exactly that state.
C16_FirstOrderLaw ==
    [][(/\ StepTaken
        /\ config.transition_dynamics_order = 1
        /\ ~config.has_transition_noise
        /\ BoxContains(action_taken, config.action_space_max)
        /\ BoxContains([c \in 1..config.state_space_dim |->
                           curr_state[c]
                           + Quotient(action_taken[c], config.inertia)
                             * config.time_unit],
                       config.state_space_max))
       => \A c \in 1..config.state_space_dim :
            curr_state'[c] = curr_state[c]
                             + Quotient(action_taken[c], config.inertia)
                               * config.time_unit]_vars

\* With inertia 2, the action (2, -2) took the state from (0, 0) to (1, -1).
C16_Witness ==
    /\ config.transition_dynamics_order = 1
    /\ config.inertia = 2
    /\ ~config.has_transition_noise
    /\ total_transitions_episode = 1
    /\ returns[1].call = <<"step", <<2, -2>>>>
    /\ augmented_state[Len(augmented_state) - 1] = <<0, 0>>
    /\ curr_state = <<1, -1>>

\* C17 as stated: out-of-range action. A step whose action is outside the
\* action box returns the state it started from (absent transition noise)
\* and leaves state_derivatives as they were.
C17_OutOfRangeAction ==
    [][(StepTaken /\ ~BoxContains(action_taken, config.action_space_max))
       => /\ ~config.has_transition_noise => curr_state' = curr_state
          /\ state_derivatives' = state_derivatives]_vars

\* C17, amended: absent transition noise, a step whose action is outside
\* the action box returns the state it started from and leaves
\* state_derivatives as they were.
C17_OutOfRangeActionNoNoise ==
    [][(/\ StepTaken
        /\ ~BoxContains(action_taken, config.action_space_max)
        /\ ~config.has_transition_noise)
       => /\ curr_state' = curr_state
          /\ state_derivatives' = state_derivatives]_vars

\* A second-order environment that has picked up speed was given the
\* action (4, 0): it stays where it was and keeps its speed.
C17_Witness ==
    /\ config.transition_dynamics_order = 2
    /\ ~config.has_transition_noise
    /\ total_transitions_episode = 2
    /\ returns[1].call = <<"step", <<4, 0>>>>
    /\ state_derivatives[2] # ZeroState(config.state_space_dim)
    /\ state_derivatives[1] = curr_state
    /\ augmented_state[Len(augmented_state) - 1] = curr_state

\* The delayed state augmented_state[-1 - delay] after the step, on the
\* relevant indices, is strictly closer to target_point than target_radius.
DelayedInRadius ==
    NormLess(Minus(Take(augmented_state'[Len(augmented_state') - config.delay],
                        config.state_space_relevant_indices),
                   config.target_point),
             config.target_radius)

\* C18: move_to_a_point, sparse. For every delay the pre-noise reward of a
\* step is reward_scale if the delayed state is within target_radius of
\* target_point and 0 otherwise, and the episode is marked terminal on
\* exactly the steps where reward_scale is paid (done is returned with it).
C18_SparsePointReward ==
    [][(StepTaken /\ ~config.make_denser)
       => /\ total_reward_episode' - total_reward_episode =
                 IF DelayedInRadius THEN config.reward_scale ELSE 0
          /\ reached_terminal' = (reached_terminal \/ DelayedInRadius)
          /\ DelayedInRadius => done']_vars

\* With delay 1 the second step left the radius it had entered with the
\* first: reward_scale is paid for the delayed state without done.
C18_Witness ==
    /\ config.delay = 1
    /\ ~config.make_denser
    /\ total_transitions_episode = 2
    /\ NormLess(Minus(augmented_state[2], config.target_point),
                config.target_radius)
    /\ ~NormLess(Minus(curr_state, config.target_point), config.target_radius)
    /\ reward = config.reward_scale
    /\ ~reached_terminal
    /\ ~done

\* The state after the step, on the relevant indices, is strictly closer to
\* target_point than target_radius.
InRadius ==
    NormLess(Minus(Take(curr_state', config.state_space_relevant_indices),
                   config.target_point),
             config.target_radius)

\* The done value of a step is true exactly if augmented_state[-1] after
\* the transition is in the terminal set or reached_terminal is set.
DoneFlag ==
    StepTaken =>
        (done' <=> \/ IsTerminalPoint(config,
                                      augmented_state'[Len(augmented_state')])
                   \/ reached_terminal')

----------------------------------------------------------------------------
(* Claims about reset in both kinds of environment, under SpecEither.      *)

\* C20: reset returns a non-terminal initial state. Before the first step
\* of an episode augmented_state[-1] is not terminal: in a discrete
\* environment the initial distribution has the same positive weight on
\* every non-terminal state and 0 on every terminal one, and in a
\* continuous environment the state is in no terminal hypercube.
C20_ResetNonTerminal ==
    total_transitions_episode = 0 =>
        IF IsDiscrete(config)
        THEN /\ \A s \in States(config) :
                    relevant_init_state_dist[s] =
                        IF s \in TerminalStates(config, num_terminal_states)
                        THEN 0 ELSE 1
             /\ ~IsTerminalState(config, num_terminal_states,
                                 augmented_state[Len(augmented_state)])
        ELSE /\ augmented_state[Len(augmented_state)] = curr_state
             /\ \A i \in DOMAIN config.terminal_states :
                    \E j \in DOMAIN config.terminal_states[i] :
                        LET x == curr_state[config.state_space_relevant_indices[j] + 1]
                            centre == config.terminal_states[i][j]
                        IN  \/ 2 * x < 2 * centre - config.term_state_edge
                            \/ 2 * x > 2 * centre + config.term_state_edge

\* A continuous episode that had ended (done is still set) was reset.
C20_Witness ==
    /\ ~IsDiscrete(config)
    /\ returns[1].call = <<"reset">>
    /\ total_transitions_episode = 0
    /\ done
    /\ ~reached_terminal
    /\ curr_state = <<-1, 0>>

----------------------------------------------------------------------------
(* Claims about the checks of the constructor, under SpecChecked.          *)

\* config["reward_density"] > 1
DensityAboveOne(cfg) ==
    "reward_density" \in DOMAIN cfg /\ cfg.reward_density.num > cfg.reward_density.den

\* The contradictions among the spaces and the target: spaces of different
\* types, continuous dimensions that differ, completely_connected with
\* fewer actions than states, a target_point of the wrong shape.
ContradictorySpaces(cfg) ==
    \/ cfg.state_space_type # cfg.action_space_type
    \/ /\ cfg.state_space_type = "continuous"
       /\ cfg.action_space_type = "continuous"
       /\ \/ cfg.state_space_dim # cfg.action_space_dim
          \/ Len(cfg.target_point) # Len(cfg.state_space_relevant_indices)
    \/ /\ cfg.state_space_type = "discrete"
       /\ cfg.action_space_type = "discrete"
       /\ cfg.completely_connected
       /\ cfg.action_space_size < cfg.state_space_size

\* C22: ConfigInvalid. No environment is produced from a configuration with
\* spaces of different types, continuous dimensions that differ,
\* completely_connected with fewer actions than states, a target_point of
\* the wrong shape, or reward_density > 1.
C22_ConfigInvalid ==
    (ContradictorySpaces(config) \/ DensityAboveOne(config)) => pc # "ready"

\* The four contradictions that __init__ asserts on are caught before any
\* init_* method runs.
C22_AssertedContradictions ==
    ContradictorySpaces(config) => pc \in {"__init__", "AssertionError"}

\* An environment of 3 states was constructed with reward_density 5/4:
\* int(5/4 * 2) = 2 sequences of the 2 possible are rewardable.
C22_Witness ==
    /\ pc = "ready"
    /\ config.state_space_type = "discrete"
    /\ config.reward_density = Density(5, 4)
    /\ Len(RewardableSequences(config, specific_sequences)) = 2

----------------------------------------------------------------------------
(* Claims about the reward of an imagined list of states, under SpecImagined *)

\* R was called with only_query on a list of the right length.
ImaginedCall ==
    /\ query'.calls = query.calls + 1
    /\ query'.call = "R"
    /\ query'.only_query
    /\ ~query'.raised

\* The reward before noise and shift that an environment of the same
\* configuration and rewardable sequences pays for a list of states right
\* after its reset.
FreshReward(state) ==
    BaseReward(config, specific_sequences,
               ResetPossibleRemainingSequences(config, specific_sequences), state)

\* C25: an only_query reward depends only on the supplied list of states:
\* whatever steps the environment has taken, the reward before noise and
\* shift for a list is the one a freshly reset environment of the same
\* configuration pays for it, with sparse and with dense rewards.
C25_OnlyQueryReward ==
    [][ImaginedCall => StepBaseReward = FreshReward(returns'[1].call[2])]_vars

\* With sparse rewards it does.
C25_SparseOnlyQueryReward ==
    [][(ImaginedCall /\ ~config.make_denser)
           => StepBaseReward = FreshReward(returns'[1].call[2])]_vars

\* A dense environment that has taken a step was asked for the reward of a
\* list and paid another reward than right after its reset.
C25_Witness ==
    /\ config.make_denser
    /\ total_transitions_episode = 1
    /\ query.call = "R" /\ query.only_query /\ ~query.raised
    /\ Len(returns) = 1
    /\ query.result # FreshReward(returns[1].call[2])
                           + config.reward_shift * config.sequence_length

----------------------------------------------------------------------------
(* Claims about irrelevant dimensions, under SpecMulti *)

\* The flat relevant and irrelevant parts of a multi-discrete state and of
\* a multi-discrete action.
RelevantPart(state) ==
    transform_multi_discrete_to_discrete(
        Take(state, config.state_space_relevant_indices),
        relevant_state_space_maxes(config))

IrrelevantPart(state) ==
    transform_multi_discrete_to_discrete(
        Take(state, state_space_irrelevant_indices(config)),
        irrelevant_state_space_maxes(config))

RelevantActionPart(action) ==
    transform_multi_discrete_to_discrete(
        Take(action, config.action_space_relevant_indices),
        relevant_action_space_maxes(config))

IrrelevantActionPart(action) ==
    transform_multi_discrete_to_discrete(
        Take(action, action_space_irrelevant_indices(config)),
        irrelevant_action_space_maxes(config))

\* step was called, and returned or raised.
MultiStepCalled ==
    /\ returns'[1].call = "step"
    /\ pc' # "ready" \/ total_transitions_episode' = total_transitions_episode + 1

\* step was called and returned.
MultiStepTaken ==
    /\ returns'[1].call = "step"
    /\ pc' = "ready"
    /\ total_transitions_episode' = total_transitions_episode + 1

\* C27: relevant/irrelevant independence. Two runs that agree on the
\* relevant part of the state and of every action have, after each step,
\* the same relevant state (and augmented state), the same reward and the
\* same done flag, whatever their irrelevant parts are; and the irrelevant
\* next state is the entry of the irrelevant table at the irrelevant state
\* and irrelevant action (resampled within the irrelevant state set when
\* transition_noise is configured).
C27_Independence ==
    [][(/\ MultiStepTaken
        /\ RelevantPart(curr_state) = RelevantPart(twin.curr_state)
        /\ augmented_state = twin.augmented_state)
       => /\ RelevantPart(curr_state') = RelevantPart(twin'.curr_state)
          /\ augmented_state' = twin'.augmented_state
          /\ reward' = twin'.reward
          /\ done' = twin'.done
          /\ IF config.has_transition_noise
             THEN IrrelevantPart(curr_state') \in States(IrrelevantConfig(config))
             ELSE IrrelevantPart(curr_state') =
                      config.transition_function_irrelevant
                          [IrrelevantPart(curr_state)]
                          [IrrelevantActionPart(returns'[1].action)]
      ]_vars

\* After two steps the runs are in different irrelevant states and in the
\* same relevant state, which the second step rewarded in both.
C27_Witness ==
    /\ returns[1].call = "step"
    /\ total_transitions_episode = 2
    /\ IrrelevantPart(curr_state) # IrrelevantPart(twin.curr_state)
    /\ RelevantPart(curr_state) = RelevantPart(twin.curr_state)
    /\ reward > 0
    /\ reward = twin.reward

C28_StepRaises ==
    [][(/\ MultiStepCalled
        /\ irrelevant_state_space_size(config) > 0
        /\ irrelevant_action_space_size(config) = 0)
       => /\ pc' \in {"IndexError", "AttributeError"}
          /\ curr_state' = curr_state
          /\ total_transitions_episode' = total_transitions_episode
      ]_vars

----------------------------------------------------------------------------
(* Claims about the integrator, under SpecContinuous *)

\* The sum over j in 0..upto of d[i + j] * time_unit^j / j!, for component
\* c, the derivatives numbered from 0.
TaylorSum(d, i, upto, c, cfg) ==
    LET RECURSIVE Upto(_)
        Upto(j) ==
            IF j < 0 THEN 0
            ELSE Upto(j - 1)
                 + Quotient(d[i + j + 1][c] * Pow(cfg.time_unit, j), Factorial(j))
    IN  Upto(upto)

\* The derivatives the integrator is specified to leave: d[n] = a / inertia
\* and every lower d[i] summed from the values of before the step and the
\* new d[n].
SpecifiedDerivatives(d_old, action, cfg) ==
    LET n == cfg.transition_dynamics_order
        read == [d_old EXCEPT
                    ![n + 1] = [c \in DOMAIN action |->
                                   Quotient(action[c], cfg.inertia)]]
    IN  [k \in 1..(n + 1) |->
            IF k = n + 1 THEN read[n + 1]
            ELSE [c \in DOMAIN action |-> TaylorSum(read, k - 1, n - (k - 1), c, cfg)]]

----------------------------------------------------------------------------
(* Claims about the order of the augmented state, under Spec *)

\* After reset and t steps that are not queries: L - 1 - t padding entries
\* when t < L - 1, then the last min(t + 1, L) states of the episode in the
\* order in which they were reached, the reset state being the first.
FifoOfEpisode ==
    LET L == AugmentedStateLength(config)
        t == total_transitions_episode
    IN  /\ Len(augmented_state) = L
        /\ Len(trajectory) = t + 1
        /\ \A k \in 1..L :
               augmented_state[k] =
                   IF k <= L - 1 - t THEN NaN ELSE trajectory[t + 1 - (L - k)]

\* C30: the augmented state is a FIFO. After reset and t non-query steps it
\* holds max(0, L - 1 - t) padding entries followed by the most recent
\* min(t + 1, L) relevant states in the order they were reached; reset and
\* every non-query step leave the current state in its last entry; and
\* every non-query step removes the oldest entry and appends the new state.
C30_AugmentedStateFifo ==
    /\ [](pc = "ready" => FifoOfEpisode)
    /\ [][StepTaken =>
            /\ augmented_state' = Tail(augmented_state) \o <<curr_state'>>
            /\ trajectory'[Len(trajectory')] = curr_state']_vars
    /\ [][(total_transitions_episode' = 0 /\ total_transitions_episode > 0) =>
            augmented_state'[Len(augmented_state')] = curr_state']_vars

\* One step into a buffer of length 4: two padding entries, the reset state
\* and another state.
C30_Witness ==
    /\ AugmentedStateLength(config) = 4
    /\ total_transitions_episode = 1
    /\ augmented_state[1] = NaN /\ augmented_state[2] = NaN
    /\ augmented_state[3] = trajectory[1]
    /\ augmented_state[4] = trajectory[2]
    /\ trajectory[1] # trajectory[2]

\* Four steps into a buffer of length 3: the reset state and the first
\* state after it have left, the last three states remain in order.
C30_WitnessFull ==
    /\ AugmentedStateLength(config) = 3
    /\ total_transitions_episode = 4
    /\ augmented_state = <<trajectory[3], trajectory[4], trajectory[5]>>
    /\ trajectory[3] # trajectory[4]
    /\ trajectory[1] # trajectory[3]

----------------------------------------------------------------------------
(* Claims about what the calls leave alone, under SpecNoise *)

\* C31: the tables of the constructor are immutable. No reset, step or
\* step with only_query of a constructed environment changes the
\* rewardable sequences, the transition table or the terminal set.
C31_TablesImmutable ==
    [][pc = "ready" =>
        /\ specific_sequences' = specific_sequences
        /\ transition_function' = transition_function
        /\ TerminalStates(config', num_terminal_states')
               = TerminalStates(config, num_terminal_states)]_vars

\* With transition_noise 1/2 two steps were taken, one of them noisy, and a
\* query moved curr_state; the table still has the entry the first step
\* looked up.
C31_Witness ==
    /\ config.has_transition_noise
    /\ total_transitions_episode = 2
    /\ total_noisy_transitions_episode >= 2
    /\ curr_state # augmented_state[Len(augmented_state)]
    /\ trajectory[2] # transition_function[trajectory[1]][0]

----------------------------------------------------------------------------
(* Claims about the decoders of the rewardable sequences, under SpecInit *)

\* total_clashes: the sequences that were in the list when they were
\* appended to it.
TotalClashes(list) ==
    Cardinality({l \in DOMAIN list : \E m \in 1..(l - 1) : list[m] = list[l]})

\* A sequence of pairwise different states.
NoRepeats(seq) == \A i, j \in DOMAIN seq : i # j => seq[i] # seq[j]

\* C32: rewardable sequences are pairwise distinct. The decoder of the
\* configuration (factorial number system without repeats, base |S_nt| with
\* repeats) maps distinct integers of [0, N) to distinct sequences, without
\* repeats each of pairwise different states; so the sequences built are
\* pairwise distinct and total_clashes is 0.
C32_SequencesDistinct ==
    SequencesBuilt =>
        LET N == NumPossibleSequences(config, num_terminal_states)
            list == RewardableSequences(config, specific_sequences)
        IN  /\ \A a, b \in 0..(N - 1) :
                   a # b => DecodeSequence(config, num_terminal_states, a)
                                # DecodeSequence(config, num_terminal_states, b)
            /\ ~config.repeats_in_sequences =>
                   \A a \in 0..(N - 1) :
                       NoRepeats(DecodeSequence(config, num_terminal_states, a))
            /\ \A l, m \in DOMAIN list : l # m => list[l] # list[m]
            /\ TotalClashes(list) = 0

\* An environment constructed without repeats whose one rewardable sequence
\* of length 2 was decoded from the integer 0.
C32_Witness ==
    /\ pc = "ready"
    /\ ~config.repeats_in_sequences
    /\ config.sequence_length = 2
    /\ NumPossibleSequences(config, num_terminal_states) = 2
    /\ RewardableSequences(config, specific_sequences)
           = <<DecodeSequence(config, num_terminal_states, 0)>>
    /\ RewardableSequences(config, specific_sequences) = <<<<0, 1>>>>

\* Three of the four sequences of length 2 with repeats were built.
C32_WitnessRepeats ==
    /\ pc = "TypeError"
    /\ config.repeats_in_sequences
    /\ config.sequence_length = 2
    /\ Len(RewardableSequences(config, specific_sequences)) = 3
    /\ In(<<0, 0>>, RewardableSequences(config, specific_sequences))
    /\ In(<<1, 1>>, RewardableSequences(config, specific_sequences))

----------------------------------------------------------------------------
(* Episodes: reset() called at any time, total_episodes counted *)

\* reset is disabled once this many episodes were begun.
MaxEpisodes == 2

\* A dense environment with delay 1, sequences of length 2, and noise on
\* the transitions and on the rewards.
EpisodeConfigs ==
    {[BaseConfig EXCEPT !.action_space_size = 1,
                        !.sequence_length = 2, !.delay = 1,
                        !.make_denser = TRUE,
                        !.has_transition_noise = TRUE,
                        !.transition_noise = Density(1, 2),
                        !.has_reward_noise = TRUE, !.reward_noise = {-1, 1}]}

\* A continuous environment of first order with noise on the transitions.
EpisodeContinuousConfigs ==
    {[BaseContinuousConfig EXCEPT !.has_transition_noise = TRUE,
                                  !.transition_noise = {-1, 1}]}

\* What the calls leave alone where the episodes are counted.
uncounted == <<query, codec, rng, twin, drawn>>

\* After __init__, whose last statement is the first reset().
InitEpisodes ==
    /\ \/ InitEnv(EpisodeConfigs) /\ NoContinuous
       \/ /\ pc = "ready"
          /\ config \in EpisodeContinuousConfigs
          /\ num_terminal_states = 0
          /\ relevant_init_state_dist = <<>>
          /\ transition_function = <<>>
          /\ specific_sequences = <<>>
          /\ possible_remaining_sequences = <<>>
          /\ \E s \in InitialPoints(config) :
              /\ curr_state = s
              /\ state_derivatives = ResetStateDerivatives(config, s)
              /\ augmented_state = ResetAugmentedPoints(config, s)
          /\ reached_terminal = FALSE
          /\ reward = 0
          /\ done = FALSE
          /\ total_transitions_episode = 0
          /\ total_noisy_transitions_episode = 0
          /\ total_abs_noise_in_reward_episode = 0
          /\ total_abs_noise_in_transition_episode = 0
          /\ total_reward_episode = 0
          /\ trajectory = <<>>
    /\ query = <<>>
    /\ codec = <<>>
    /\ rng = <<>>
    /\ returns = Called(<<"__init__">>, 0)
    /\ twin = <<>>
    /\ drawn = <<>>
    /\ total_episodes = 1

\* reset() of a discrete environment: "self.total_episodes += 1", then the
\* episode's state.
ResetEpisode ==
    /\ IsDiscrete(config)
    /\ total_episodes < MaxEpisodes
    /\ total_episodes' = total_episodes + 1
    /\ reset
    /\ returns' = Called(<<"reset">>, 0)
    /\ UNCHANGED <<continuous, uncounted>>

\* reset() of a continuous environment.
ResetContinuousEpisode ==
    /\ ~IsDiscrete(config)
    /\ total_episodes < MaxEpisodes
    /\ total_episodes' = total_episodes + 1
    /\ reset_continuous
    /\ returns' = Called(<<"reset">>, 0)
    /\ UNCHANGED uncounted

StepEpisode ==
    /\ IsDiscrete(config)
    /\ \E action \in Actions(config) :
        /\ step(action)
        /\ returns' = Called(<<"step", action>>, 0)
    /\ UNCHANGED <<continuous, uncounted, total_episodes>>

StepContinuousEpisode ==
    /\ ~IsDiscrete(config)
    /\ \E action \in ContinuousActions(config),
          noise_in_transition \in TransitionNoise(config),
          noise_in_reward \in RewardNoise(config) :
        /\ step_continuous(action, noise_in_transition, noise_in_reward)
        /\ returns' = Called(<<"step", action>>, noise_in_transition)
    /\ UNCHANGED <<uncounted, total_episodes>>

NextEpisodes ==
    \/ ResetEpisode
    \/ ResetContinuousEpisode
    \/ StepEpisode
    \/ StepContinuousEpisode

\* Environments of either kind under reset and step, the episodes counted.
SpecEpisodes == InitEpisodes /\ [][NextEpisodes]_vars

\* The call that led to the state is reset().
ResetReturned == returns[1].call = <<"reset">>

\* C33: reset() restores the per-episode state whenever it is called: the
\* five per-episode counters are 0, reached_terminal is false, the
\* derivatives past the state itself are zero in a continuous environment,
\* possible_remaining_sequences is [the length-1 prefixes of the rewardable
\* sequences, [], ...] in a dense one, and total_episodes has grown by
\* exactly 1.
C33_ResetRestores ==
    [][ResetReturned' =>
        /\ total_transitions_episode' = 0
        /\ total_noisy_transitions_episode' = 0
        /\ total_abs_noise_in_reward_episode' = 0
        /\ total_abs_noise_in_transition_episode' = 0
        /\ total_reward_episode' = 0
        /\ reached_terminal' = FALSE
        /\ total_episodes' = total_episodes + 1
        /\ ~IsDiscrete(config) =>
               /\ Len(state_derivatives') = config.transition_dynamics_order + 1
               /\ \A i \in 2..Len(state_derivatives') :
                      state_derivatives'[i] = ZeroState(config.state_space_dim)
        /\ (IsDiscrete(config) /\ config.make_denser) =>
               LET list == RewardableSequences(config, specific_sequences) IN
               /\ Len(possible_remaining_sequences') = config.sequence_length
               /\ possible_remaining_sequences'[1]
                      = [l \in DOMAIN list |-> <<list[l][1]>>]
               /\ \A j \in 2..config.sequence_length :
                      possible_remaining_sequences'[j] = <<>>]_vars

\* reset() was called in the middle of the first episode of a dense
\* environment: what its last step returned is still there, done is false.
C33_Witness ==
    /\ ResetReturned
    /\ IsDiscrete(config)
    /\ total_episodes = 2
    /\ reward # 0
    /\ ~done
    /\ total_transitions_episode = 0
    /\ possible_remaining_sequences[2] = <<>>

\* reset() was called in a continuous environment whose last step was
\* rewarded.
C33_WitnessContinuous ==
    /\ ResetReturned
    /\ ~IsDiscrete(config)
    /\ total_episodes = 2
    /\ reward # 0
    /\ state_derivatives[2] = ZeroState(2)

----------------------------------------------------------------------------
(* __init__, "#seed": the sub-seeds, one statement at a time *)

\* Mutant: the seed of the action space is drawn before the state space's.
SubSeedKey_swapped(i) ==
    <<"relevant_state_space", "relevant_action_space",
      "irrelevant_state_space", "irrelevant_action_space",
      "action_space", "state_space", "image_representations">>[i]

\* The key of seed_dict that the i-th of the seven statements
\* 'self.seed_dict[...] = self.np_random.randint(sys.maxsize)' assigns.
SubSeedKey(i) ==
    <<"relevant_state_space", "relevant_action_space",
      "irrelevant_state_space", "irrelevant_action_space",
      "state_space", "action_space", "image_representations">>[i]

\* self.seed_dict = {}; self.seed_dict["env"] = self.seed_int;
\* self.seed(self.seed_dict["env"]). The dict is kept as the list of its
\* items in the order of their insertion.
seed_env ==
    /\ pc = "seed"
    /\ pc' = "gen_seeds"
    /\ \E entropy \in Entropy :
        rng' = [np_random |-> SeedNpRandom(config.seed, entropy),
                seed_dict |-> <<[key |-> "env", value |-> config.seed]>>]
    /\ UNCHANGED <<tables, episode, continuous, total_episodes, query, codec,
                   returns, twin, drawn>>

\* The next of the seven statements that draw a sub-seed.
gen_seed ==
    /\ pc = "gen_seeds"
    /\ LET i == Len(rng.seed_dict) IN
       /\ pc' = IF i = 7 THEN "seeded" ELSE pc
       /\ \E value \in SubSeeds :
           /\ Gives(rng.np_random, <<"randint">>, value)
           /\ rng' = [np_random |-> Advance(rng.np_random, 1),
                      seed_dict |-> Append(rng.seed_dict,
                                           [key |-> SubSeedKey(i),
                                            value |-> value])]
    /\ UNCHANGED <<tables, episode, continuous, total_episodes, query, codec,
                   returns, twin>>

InitSeed == InitFresh /\ twin = <<>>

NextSeed == seed_env \/ gen_seed

\* The "#seed" part of __init__ with an integer seed.
SpecSeed == InitSeed /\ [][NextSeed]_vars

\* The order of derivation.
SubSeedOrder ==
    <<"relevant_state_space", "relevant_action_space",
      "irrelevant_state_space", "irrelevant_action_space",
      "state_space", "action_space", "image_representations">>

\* C34: the environment's generator is seeded with the integer seed and
\* the sub-seeds are its successive draws, in the order
\* relevant_state_space, relevant_action_space, irrelevant_state_space,
\* irrelevant_action_space, state_space, action_space,
\* image_representations; nothing else is drawn from it before or between.
C34_SubSeedOrder ==
    pc \in {"gen_seeds", "seeded"} =>
        LET seed_dict == rng.seed_dict
            n == Len(seed_dict) - 1
        IN  /\ seed_dict[1] = [key |-> "env", value |-> config.seed]
            /\ rng.np_random.seed = config.seed
            /\ rng.np_random.pos = n
            /\ DOMAIN drawn = {<<config.seed, p>> : p \in 0..(n - 1)}
            /\ \A i \in 1..n :
                   /\ seed_dict[i + 1].key = SubSeedOrder[i]
                   /\ drawn[<<config.seed, i - 1>>]
                          = [call |-> <<"randint">>, value |-> seed_dict[i + 1].value]
            /\ pc = "seeded" <=> n = 7

\* All seven sub-seeds were drawn from the generator of seed 1, the first
\* two of them different.
C34_Witness ==
    /\ pc = "seeded"
    /\ config.seed = 1
    /\ Len(rng.seed_dict) = 8
    /\ rng.seed_dict[2].value # rng.seed_dict[3].value
    /\ rng.seed_dict[6].value # rng.seed_dict[7].value
    /\ rng.np_random = [seed |-> 1, pos |-> 7]

----------------------------------------------------------------------------
(* Dense rewards against the delay and against sparse rewards *)

\* Dense rewards of scale 2 without noise, shift or terminal bonus:
\* sequences of length 1 and 2 (one rewardable sequence), delays 0 to 2.
DelayConfigs ==
    {[BaseConfig EXCEPT !.sequence_length = k, !.delay = d,
                        !.make_denser = TRUE, !.reward_scale = 2] :
        k \in 1..2, d \in 0..2}

InitDelay == InitEnv(DelayConfigs) /\ NoAux

NextDelay == Reset \/ DoStep

\* Dense environments under reset and step.
SpecDelay == InitDelay /\ [][NextDelay]_vars

RECURSIVE EpisodeAfter(_, _, _)
\* An environment of configuration cfg that was reset to states[1] and then
\* stepped through the rest of states: its augmented state, its
\* possible_remaining_sequences and the pre-noise reward of its last step.
EpisodeAfter(cfg, seqs, states) ==
    IF Len(states) = 1
    THEN [augmented_state |-> ResetAugmentedState(cfg, states[1]),
          possible_remaining_sequences |->
              ResetPossibleRemainingSequences(cfg, seqs),
          reward |-> 0]
    ELSE LET before == EpisodeAfter(cfg, seqs,
                                    SubSeq(states, 1, Len(states) - 1))
             aug == PushAugmentedState(before.augmented_state,
                                       states[Len(states)])
         IN  [augmented_state |-> aug,
              possible_remaining_sequences |->
                  IF cfg.make_denser
                  THEN RebuildPossibleRemainingSequences(cfg, seqs, aug)
                  ELSE before.possible_remaining_sequences,
              reward |-> BaseReward(cfg, seqs,
                                    before.possible_remaining_sequences, aug)]

\* The pre-noise reward that the otherwise identical environment with
\* delay 0 returned at step t of the trajectory of this episode.
RewardWithoutDelay(t) ==
    EpisodeAfter([config EXCEPT !.delay = 0], specific_sequences,
                 SubSeq(trajectory, 1, t + 1)).reward

\* The pre-noise reward that the otherwise identical sparse environment
\* returned at the last step.
RewardOfSparse ==
    SparseReward([config EXCEPT !.make_denser = FALSE], specific_sequences,
                 augmented_state)

\* The step of the delay-free environment that the last step repeats.
ShiftedStep == total_transitions_episode - config.delay

\* C35: the delay only shifts dense rewards in time. The pre-noise reward
\* returned at step t + d with delay d equals the pre-noise reward returned
\* at step t by the otherwise identical environment with delay 0 on the
\* same trajectory, for every t >= 1.
C35_DelayShifts ==
    (pc = "ready" /\ ShiftedStep >= 1) => reward = RewardWithoutDelay(ShiftedStep)

\* From the second step on the rewards are those of the delay-free
\* environment.
C35_DelayShiftsLater ==
    (pc = "ready" /\ ShiftedStep >= 2) => reward = RewardWithoutDelay(ShiftedStep)

\* With delay 1 the second step pays the full reward for the rewardable
\* sequence made of the reset state and the state after it; without delay
\* the first step paid nothing.
C35_Witness ==
    /\ config.delay = 1
    /\ config.sequence_length = 2
    /\ total_transitions_episode = 2
    /\ In(<<trajectory[1], trajectory[2]>>,
          RewardableSequences(config, specific_sequences))
    /\ reward = config.reward_scale * config.sequence_length
    /\ RewardWithoutDelay(1) = 0

\* C36: dense rewards dominate sparse rewards. On every step on which the
\* environment that differs only in make_denser = false pays reward_scale,
\* the dense environment pays a pre-noise reward of at least reward_scale.
C36_DenseDominates ==
    (pc = "ready" /\ total_transitions_episode >= 1
        /\ RewardOfSparse = config.reward_scale * config.sequence_length)
    => reward >= config.reward_scale * config.sequence_length

\* From the second step of an episode on they do.
C36_DenseDominatesLater ==
    (pc = "ready" /\ total_transitions_episode >= 2
        /\ RewardOfSparse = config.reward_scale * config.sequence_length)
    => reward >= config.reward_scale * config.sequence_length

\* The first step of an episode completed the rewardable sequence that
\* begins at the reset state: the sparse environment pays reward_scale, the
\* dense one nothing.
C36_Witness ==
    /\ config.delay = 0
    /\ config.sequence_length = 2
    /\ total_transitions_episode = 1
    /\ RewardableSequences(config, specific_sequences)
           = <<<<trajectory[1], trajectory[2]>>>>
    /\ RewardOfSparse = config.reward_scale * config.sequence_length
    /\ reward = 0

----------------------------------------------------------------------------
(* Claims about termination, under SpecEither *)

\* A step of step() was taken from a state to which a step of the same
\* episode had returned done = true, without noise on the transitions.
StepAfterDone ==
    /\ pc = "ready"
    /\ ~config.has_transition_noise
    /\ done
    /\ total_transitions_episode >= 1
    /\ total_transitions_episode' = total_transitions_episode + 1

\* C37: termination is sticky. Without transition noise, once a step has
\* returned done = true every later step before the next reset() returns
\* done = true, in discrete and in continuous environments.
C37_TerminationSticky == [][StepAfterDone => done']_vars

\* Discrete terminal states and the reached_terminal flag are sticky.
C37_StickyDiscreteAndFlag ==
    [][(StepAfterDone /\ (IsDiscrete(config) \/ reached_terminal)) => done']_vars

\* The second step of an episode left the terminal hypercube that the first
\* step had entered, and returned done = false.
C37_Witness ==
    /\ ~IsDiscrete(config)
    /\ ~config.has_transition_noise
    /\ total_transitions_episode = 2
    /\ IsTerminalPoint(config, augmented_state[Len(augmented_state) - 1])
    /\ ~IsTerminalPoint(config, augmented_state[Len(augmented_state)])
    /\ ~reached_terminal
    /\ ~done

\* The second step of a discrete episode stayed in the terminal state.
C37_WitnessDiscrete ==
    /\ IsDiscrete(config)
    /\ total_transitions_episode = 2
    /\ IsTerminalState(config, num_terminal_states, trajectory[2])
    /\ trajectory[3] = trajectory[2]
    /\ done

----------------------------------------------------------------------------
(* Claims about the counters of an episode, under SpecNoise *)

\* C38: counter consistency. In every reachable state of a discrete
\* environment, whatever the interleaving of reset, step and only_query
\* calls, total_noisy_transitions_episode <= total_transitions_episode, and
\* total_transitions_episode is the number of transitions that were not
\* queries since the last reset.
C38_CounterConsistency ==
    pc = "ready" =>
        /\ total_noisy_transitions_episode <= total_transitions_episode
        /\ total_transitions_episode = Len(trajectory) - 1

\* The transitions that were not queries are counted.
C38_TransitionsCounted ==
    pc = "ready" => total_transitions_episode = Len(trajectory) - 1

\* A query is a call that leaves the count of transitions alone; a call
\* that is no query keeps the noisy transitions within the transitions it
\* adds.
C38_NoisyWithinStep ==
    [][(pc = "ready"
            /\ total_transitions_episode' = total_transitions_episode + 1)
        => total_noisy_transitions_episode'
               <= total_noisy_transitions_episode + 1]_vars

\* A query right after reset whose transition was resampled: one noisy
\* transition, no transition.
C38_Witness ==
    /\ pc = "ready"
    /\ config.has_transition_noise
    /\ total_transitions_episode = 0
    /\ total_noisy_transitions_episode = 1
    /\ trajectory = <<augmented_state[Len(augmented_state)]>>

----------------------------------------------------------------------------
(* reset() of a continuous environment, one sample of its loop at a time *)

\* One terminal hypercube around (-2, -2); one around (-2, -2) and one
\* around (2, 2), with the target in the middle; and one hypercube of edge
\* 4 around the origin, which is the whole box.
SamplingConfigs ==
    {BaseContinuousConfig,
     [BaseContinuousConfig EXCEPT !.terminal_states = <<<<-2, -2>>, <<2, 2>>>>,
                                  !.target_point = <<0, 0>>,
                                  !.target_radius = 1],
     [BaseContinuousConfig EXCEPT !.terminal_states = <<<<0, 0>>>>,
                                  !.term_state_edge = 4]}

\* __init__ has called reset(), which is about to sample.
InitSampling ==
    /\ pc = "while True"
    /\ config \in SamplingConfigs
    /\ num_terminal_states = 0
    /\ relevant_init_state_dist = <<>>
    /\ transition_function = <<>>
    /\ specific_sequences = <<>>
    /\ possible_remaining_sequences = <<>>
    /\ curr_state = NanState(config.state_space_dim)
    /\ state_derivatives = <<>>
    /\ augmented_state = <<>>
    /\ reached_terminal = FALSE
    /\ reward = 0
    /\ done = FALSE
    /\ total_transitions_episode = 0
    /\ total_noisy_transitions_episode = 0
    /\ total_abs_noise_in_reward_episode = 0
    /\ total_abs_noise_in_transition_episode = 0
    /\ total_reward_episode = 0
    /\ trajectory = <<>>
    /\ query = <<>>
    /\ codec = <<>>
    /\ rng = <<>>
    /\ returns = Called(<<"__init__">>, 0)
    /\ twin = <<>>
    /\ drawn = <<>>
    /\ total_episodes = 0

\* reset() is called and enters its loop.
reset_called ==
    /\ pc = "ready"
    /\ pc' = "while True"
    /\ returns' = Called(<<"reset">>, 0)
    /\ UNCHANGED <<tables, episode, continuous, discrete>>

\* An iteration of "while True" that samples a state in a terminal
\* hypercube: term_space_was_sampled, the loop goes on.
resample ==
    /\ pc = "while True"
    /\ \E s \in BoxSample(config.state_space_dim, config.state_space_max) :
        /\ IsTerminalPoint(config, s)
        /\ curr_state' = s
    /\ UNCHANGED <<pc, tables, augmented_state, possible_remaining_sequences,
                   reward, done, total_transitions_episode,
                   total_noisy_transitions_episode,
                   total_abs_noise_in_reward_episode, total_reward_episode,
                   trajectory, continuous, discrete, returns>>

\* The iteration that samples a state outside the terminal hypercubes: the
\* loop is left and reset() runs to its end.
reset_returns ==
    /\ pc = "while True"
    /\ pc' = "ready"
    /\ \E s \in BoxSample(config.state_space_dim, config.state_space_max) :
        /\ ~IsTerminalPoint(config, s)
        /\ curr_state' = s
        /\ state_derivatives' = ResetStateDerivatives(config, s)
        /\ augmented_state' = ResetAugmentedPoints(config, s)
    /\ reached_terminal' = FALSE
    /\ total_abs_noise_in_reward_episode' = 0
    /\ total_abs_noise_in_transition_episode' = 0
    /\ total_noisy_transitions_episode' = 0
    /\ total_reward_episode' = 0
    /\ total_transitions_episode' = 0
    /\ UNCHANGED <<tables, possible_remaining_sequences, reward, done,
                   trajectory, discrete, returns>>

NextSampling ==
    \/ reset_called
    \/ resample
    \/ reset_returns
    \/ StepContinuous

\* Continuous environments from the first reset on. Every sample is an
\* independent draw from the box, so a loop that can be left is left.
SpecSampling ==
    InitSampling /\ [][NextSampling]_vars /\ WF_vars(reset_returns)

\* C39: reset() terminates. Whatever the terminal hypercubes, the loop of
\* reset() eventually samples a state that is not terminal and reset()
\* returns, during construction too.
C39_ResetTerminates == (pc = "while True") ~> (pc = "ready")

\* reset() returns when some state of the box is outside the terminal
\* hypercubes.
C39_ResetTerminatesIfPossible ==
    (pc = "while True" /\ InitialPoints(config) # {}) ~> (pc = "ready")

\* The hypercube is the whole box: reset() has sampled a terminal state
\* and no state that ends the loop exists.
C39_Witness ==
    /\ pc = "while True"
    /\ IsTerminalPoint(config, curr_state)
    /\ InitialPoints(config) = {}

============================================================================
